---- MODULE Spec2Model ----
(***************************************************************************)
(* A model of the ClueWeb22 metadata scanning pipeline:                    *)
(*   - the file-state store (metadata_scanning/clueweb_dbwrapper.py),      *)
(*   - the coordinator of the static batch protocol                        *)
(*     (metadata_scanning/clueweb_metadata_coordinator.py) with its        *)
(*     scanner runs (clueweb_metadata_scanner.py) and control client       *)
(*     (clueweb_coordinator_ctrl.py),                                      *)
(*   - the dynamic supervisor (clueweb_metadata_scanner_dynamic.py),       *)
(*   - the merger of sorted shards (clueweb_heap_sort.py),                 *)
(*   - the offset lookup (misc/utils.py, clueweb_extract_data.py),         *)
(*   - the decoder of record ids (misc/utils.py),                          *)
(*   - the record extractor (data_extraction/clueweb_extract_data.py).     *)
(* One set of variables, one initial state, one next-state relation per    *)
(* subsystem.                                                              *)
(***************************************************************************)
EXTENDS Integers, Sequences, FiniteSets, TLC

\* ---------------------------------------------------------------- bounds
\* Number of rows of the files table (ids 1..NumFiles).
NumFiles == 2
\* Largest batch size a caller asks for.
MaxCount == 2
\* Number of get_next_batch calls each concurrent caller makes.
MaxCalls == 2
\* args.procs of the dynamic supervisor.
NumWorkers == 2
\* Number of control messages sent to the dynamic supervisor.
MaxCtrl == 3
\* Number of static scanner runs started on one node.
MaxRuns == 2
\* Number of times the dynamic supervisor is killed and started again.
MaxRestarts == 1

\* ------------------------------------------------------- program constants
NOT_STARTED == 0
IN_PROGRESS == 1
DONE == 2

\* The job column of a freshly inserted row (SQL NULL).
NULL == "NULL"
\* The job column after clear_batch (the empty string).
EMPTY == ""

Ids == 1..NumFiles
Jobs == {"A", "B"}
\* Batch sizes handed to get_next_batch: the count is any int (argparse type=int).
Counts == (-1)..MaxCount

\* The path column: unique per row.  PathOf(0) is a path of no row.
PathOf(id) == <<"f", id>>
NoPath == PathOf(0)
\* The declared record count of a row.
RecordsOf(id) == id

VARIABLES
  files,      \* the files table as committed on disk: id -> row
  lastCall,   \* SpecStore: the last store call and what it returned
  \* SpecConc: two callers, each on its own sqlite3 connection
  cpc,        \* caller -> where it is inside get_next_batch ("idle": outside)
  cn,         \* caller -> the count it passed
  batch_ids,  \* caller -> the local list batch_ids
  inTxn,      \* connection -> a BEGIN TRANSACTION is open on it
  lock,       \* connection -> its lock on the database file
  wr,         \* connection -> ids its uncommitted UPDATE wrote
  got,        \* caller -> every id get_next_batch has returned to it
  calls,      \* caller -> number of calls started
  cop,        \* caller -> the write operation it is inside, or NoOp
  wops,       \* connection -> the write operations whose UPDATE is uncommitted
  ret,        \* caller -> what its last store call returned
  \* SpecCoord: the coordinator, the scanner runs and the control client
  coord,      \* "running", "exited", or the exception that ended run()
  done,       \* the coordinator's local flag done
  jobsQ,      \* requests waiting on the jobs socket
  ctrlQ,      \* requests waiting on the control socket
  jobsReply,  \* run -> the reply delivered to its REQ socket
  ctrlReply,  \* control client -> the reply delivered to its REQ socket
  rpc,        \* run -> where the scanner's run() is
  rjob,       \* run -> its job id (args.name)
  rfiles,     \* run -> data_files, the batch it was given
  rok,        \* run -> the result it put in FINISHED
  kpc,        \* control client -> "idle" or "waiting" in recv_pyobj()
  scannedOK,   \* paths some worker scanned to completion without error
  \* SpecDyn: the dynamic supervisor, its workers and clueweb_ctrl.py
  workers_active, \* worker -> self.workers_active[worker]
  toWorker,       \* worker -> messages the parent sent down its pipe, unread
  toParent,       \* worker -> messages the worker sent up its pipe, unread
  wpc,            \* worker -> "recv", "scan" or "exited"
  wfile,          \* worker -> the path it is scanning
  completed_ok,   \* worker -> its local completed_ok
  num_finished,   \* run()'s local num_finished
  zreq,           \* the request on the REP socket not yet received, or NoReq
  zack,           \* an ACK is on its way to the control client
  nctl,           \* number of control messages sent so far
  failed,         \* paths whose scan raised in a dynamic worker (history)
  dshard,         \* worker -> its shard job_id-worker{i}.csv
  druns,          \* number of restarts of the dynamic supervisor
  \* SpecShard: one static scanner node, its processes and its output directory
  sdir,           \* shard name -> the file: does it exist, its rows' first fields
  sjob,           \* self.job_id of the run in progress, NULL between runs
  sbatch,         \* data_files of the run
  scur,           \* run()'s local current_file
  sproc,          \* process -> "spawned", "ask", "scan" or "exited"
  sfile,          \* process -> the path it is scanning
  sok,            \* process -> its local completed_ok
  sruns,          \* number of runs started on the node
  \* SpecMerge: one run of the merger (clueweb_heap_sort.py)
  minputs,        \* the .csv.sorted files of args.input: file -> its lines
  mpos,           \* file -> number of lines read from it (File.fp)
  mfill,          \* files the first loop has not visited yet
  msorted,        \* keys of sorted_files
  heap,           \* the heap list of (key, line, File) tuples
  mout,           \* the lines written to output_file
  mpc,            \* "fill", "loop", "done", or the exception that ended the run
  \* SpecOffsets: one call of get_offsets (misc/utils.py)
  otable,         \* the characters of the offset file
  oids,           \* record sequence numbers still to look up
  opos,           \* position of the last seek
  odata,          \* offset_data of the last read
  oresults,       \* results
  opc,            \* "loop", "returned", or the exception that ended the call
  \* SpecDecode: one call of id_to_data_file_path (misc/utils.py)
  idprefix,       \* is the ID written with the clueweb22- prefix
  idfields,       \* the dash-separated fields the ID is written from
  idroot,         \* root
  idkind,         \* filetype
  idout,          \* the returned (path, offset_path)
  idpc,           \* "call", "returned", or the exception that ended the call
  \* SpecExtract: one run of the extractor (data_extraction/clueweb_extract_data.py)
  record_ids,     \* self.record_ids
  xfs,            \* the container and offset files that exist under the root
  xworkers,       \* self.workers
  files_to_access,\* run()'s dict, in insertion order
  xtask,          \* task -> "none", "queued", "fetched", "done" or "failed"
  xdata,          \* task -> record_data of extract_data
  xseen,          \* the futures as_completed has yielded
  xout,           \* output file -> its bytes
  xpc,            \* run(): "start", "submit", "collect", "raising", "returned", "raised"
  \* SpecGenerate: ClueWebFileDatabase.generate
  gwalk,          \* keys of the .json.gz files in the order os.walk yields them
  gfile,          \* the file output_filename: does it exist, its rows by id
  gpc,            \* "call", "returned" or "Exception"
  \* SpecCounter: clueweb_counter.py
  shards,         \* job id -> the bytes of <job_id>.csv in the results folder
  already_counted,\* job id -> the count loaded from the counts database
  counts,         \* job id -> the rows of the counts database
  csv_files,      \* the job ids run() has still to check
  clog,           \* job id -> the line logged for it
  creads          \* the shards count_lines has opened and read

storeVars == <<lastCall>>
concVars == <<cpc, cn, batch_ids, inTxn, lock, wr, got, calls, cop, wops, ret>>
coordVars == <<coord, done, jobsQ, ctrlQ, jobsReply, ctrlReply, rpc, rjob, rfiles,
               rok, kpc, scannedOK>>
dynVars == <<workers_active, toWorker, toParent, wpc, wfile, completed_ok,
             num_finished, zreq, zack, nctl, failed, dshard, druns>>
shardVars == <<sdir, sjob, sbatch, scur, sproc, sfile, sok, sruns>>
mergeVars == <<minputs, mpos, mfill, msorted, heap, mout, mpc>>
offsetVars == <<otable, oids, opos, odata, oresults, opc>>
decodeVars == <<idprefix, idfields, idroot, idkind, idout, idpc>>
extractVars == <<record_ids, xfs, xworkers, files_to_access, xtask, xdata, xseen,
                 xout, xpc>>
genVars == <<gwalk, gfile, gpc>>
counterVars == <<shards, already_counted, counts, csv_files, clog, creads>>
auditVars == <<genVars, counterVars>>
restVars == <<decodeVars, extractVars, auditVars>>
toolVars == <<mergeVars, offsetVars, restVars>>
vars == <<files, storeVars, concVars, dynVars, shardVars, coordVars, toolVars>>

\* ------------------------------------------------------------- the store

\* generate(): rows inserted in sorted key order, state NOT_STARTED, job NULL.
InitFiles ==
  [id \in Ids |-> [path |-> PathOf(id), records |-> RecordsOf(id),
                   state |-> NOT_STARTED, job |-> NULL]]

Min(a, b) == IF a <= b THEN a ELSE b

SeqRange(s) == {s[i] : i \in 1..Len(s)}

\* ORDER BY id DESC of a set of ids.
RECURSIVE OrderByIdDesc(_)
OrderByIdDesc(S) ==
  IF S = {} THEN <<>>
  ELSE LET m == CHOOSE x \in S : \A y \in S : x >= y
       IN <<m>> \o OrderByIdDesc(S \ {m})

\* ORDER BY id ASC of a set of ids.
RECURSIVE OrderByIdAsc(_)
OrderByIdAsc(S) ==
  IF S = {} THEN <<>>
  ELSE LET m == CHOOSE x \in S : \A y \in S : x <= y
       IN <<m>> \o OrderByIdAsc(S \ {m})

\* Limit with the bound off by one.
LimitOffByOne(s, count) ==
  IF count < 0 THEN s ELSE SubSeq(s, 1, Min(count + 1, Len(s)))

\* LIMIT ?: a negative limit is no limit (SQLite).
Limit(s, count) ==
  IF count < 0 THEN s ELSE SubSeq(s, 1, Min(count, Len(s)))

\* SELECT id, path FROM files WHERE state = NOT_STARTED ORDER BY id ASC LIMIT count
SelectBatch(f, count) ==
  Limit(OrderByIdAsc({id \in DOMAIN f : f[id].state = NOT_STARTED}), count)

\* UPDATE files SET state = IN_PROGRESS, job = ? WHERE id IN (batch_ids)
UpdateInProgress(f, ids, job) ==
  [id \in DOMAIN f |->
     IF id \in SeqRange(ids)
     THEN [f[id] EXCEPT !.state = IN_PROGRESS, !.job = job]
     ELSE f[id]]

\* get_next_batch on a connection nobody else is using: the transaction commits.
GetNextBatch(f, job, count) ==
  LET ids == SelectBatch(f, count)
  IN [ids   |-> ids,
      paths |-> [i \in 1..Len(ids) |-> f[ids[i]].path],
      files |-> UpdateInProgress(f, ids, job)]

\* UPDATE files SET state = NOT_STARTED WHERE job = ?
ClearBatchKeepsJob(f, job) ==
  [id \in DOMAIN f |->
     IF f[id].job = job THEN [f[id] EXCEPT !.state = NOT_STARTED] ELSE f[id]]

\* UPDATE files SET state = NOT_STARTED, job = "" WHERE job = ?
ClearBatch(f, job) ==
  [id \in DOMAIN f |->
     IF f[id].job = job
     THEN [f[id] EXCEPT !.state = NOT_STARTED, !.job = EMPTY]
     ELSE f[id]]

\* UPDATE files SET state = state + 1 WHERE job = ?
CompleteBatchIncrements(f, job) ==
  [id \in DOMAIN f |->
     IF f[id].job = job THEN [f[id] EXCEPT !.state = @ + 1] ELSE f[id]]

\* UPDATE files SET state = DONE WHERE job = ?
CompleteBatch(f, job) ==
  [id \in DOMAIN f |->
     IF f[id].job = job THEN [f[id] EXCEPT !.state = DONE] ELSE f[id]]

\* for path in files: UPDATE files SET state = DONE WHERE path = ?
CompleteBatchFiles(f, paths) ==
  [id \in DOMAIN f |->
     IF f[id].path \in SeqRange(paths) THEN [f[id] EXCEPT !.state = DONE] ELSE f[id]]

\* ------------------------------------------- SpecStore: one caller, any calls

NoCall == [op |-> "none", job |-> NULL, n |-> 0, ids |-> <<>>, paths |-> <<>>]

StoreInit == lastCall = NoCall

StoreGetNextBatch(job, n) ==
  LET r == GetNextBatch(files, job, n)
  IN /\ files' = r.files
     /\ lastCall' = [op |-> "get_next_batch", job |-> job, n |-> n,
                     ids |-> r.ids, paths |-> r.paths]
     /\ UNCHANGED <<concVars, coordVars, dynVars, shardVars, toolVars>>

StoreClearBatch(job) ==
  /\ UNCHANGED <<concVars, coordVars, dynVars, shardVars, toolVars>>
  /\ files' = ClearBatch(files, job)
  /\ lastCall' = [op |-> "clear_batch", job |-> job, n |-> 0,
                  ids |-> <<>>, paths |-> <<>>]

StoreCompleteBatch(job) ==
  /\ UNCHANGED <<concVars, coordVars, dynVars, shardVars, toolVars>>
  /\ files' = CompleteBatch(files, job)
  /\ lastCall' = [op |-> "complete_batch", job |-> job, n |-> 0,
                  ids |-> <<>>, paths |-> <<>>]

\* The lists of paths handed to complete_batch_files: one path, of a row or of none.
PathLists == {<<p>> : p \in {PathOf(id) : id \in Ids} \cup {NoPath}}

StoreCompleteBatchFiles(paths) ==
  /\ UNCHANGED <<concVars, coordVars, dynVars, shardVars, toolVars>>
  /\ files' = CompleteBatchFiles(files, paths)
  /\ lastCall' = [op |-> "complete_batch_files", job |-> NULL, n |-> 0,
                  ids |-> <<>>, paths |-> paths]


\* ------------------- SpecConc: get_next_batch on two connections, interleaved
\* Each statement of get_next_batch is a step.  The database file is locked as
\* SQLite locks a rollback-journal database: a deferred BEGIN takes no lock, the
\* SELECT takes SHARED, the UPDATE takes RESERVED, COMMIT of changed pages needs
\* EXCLUSIVE (PENDING while readers remain).  A statement that cannot get its
\* lock raises sqlite3.OperationalError ("database is locked"): at once when the
\* connection already holds SHARED, after the busy timeout otherwise.

Conns == {1, 2}
ConnJob(c) == IF c = 1 THEN "A" ELSE "B"
ConcCounts == 1..MaxCount
Others(c) == Conns \ {c}

\* A write operation and its argument (a job id or a list of paths).
WriteOp(op, job, paths) == [op |-> op, job |-> job, paths |-> paths]
NoOp == WriteOp("none", NULL, <<>>)
\* What a store call returned: the lists of get_next_batch or the bool of a write
\* operation, and whether the except clause was entered on the way.
Return(op, error, ok, ids) == [op |-> op, error |-> error, ok |-> ok, ids |-> ids]
NoReturn == Return("none", FALSE, TRUE, <<>>)

ConcInit ==
  /\ cpc = [c \in Conns |-> "idle"]
  /\ cn = [c \in Conns |-> 0]
  /\ batch_ids = [c \in Conns |-> <<>>]
  /\ inTxn = [c \in Conns |-> FALSE]
  /\ lock = [c \in Conns |-> "none"]
  /\ wr = [c \in Conns |-> <<>>]
  /\ got = [c \in Conns |-> {}]
  /\ calls = [c \in Conns |-> 0]
  /\ cop = [c \in Conns |-> NoOp]
  /\ wops = [c \in Conns |-> <<>>]
  /\ ret = [c \in Conns |-> NoReturn]

\* return batch_ids, batch_files (line 160), reached from the commit and from
\* the except clause alike.
ReturnBatch(c, ids, error) ==
  /\ got' = [got EXCEPT ![c] = @ \cup SeqRange(ids)]
  /\ cpc' = [cpc EXCEPT ![c] = "idle"]
  /\ ret' = [ret EXCEPT ![c] = Return("get_next_batch", error, TRUE, ids)]

\* batch_ids, batch_files = [], []
ConcCall(c, n) ==
  /\ UNCHANGED <<storeVars, coordVars, dynVars, shardVars, toolVars>>
  /\ cpc[c] = "idle"
  /\ calls[c] < MaxCalls
  /\ calls' = [calls EXCEPT ![c] = @ + 1]
  /\ cn' = [cn EXCEPT ![c] = n]
  /\ batch_ids' = [batch_ids EXCEPT ![c] = <<>>]
  /\ cpc' = [cpc EXCEPT ![c] = "begin"]
  /\ UNCHANGED <<files, inTxn, lock, wr, got, cop, wops, ret>>

\* cur.execute('BEGIN TRANSACTION'): an error inside an open transaction.
ConcBegin(c) ==
  /\ UNCHANGED <<storeVars, coordVars, dynVars, shardVars, toolVars>>
  /\ cpc[c] = "begin"
  /\ IF inTxn[c]
     THEN /\ ReturnBatch(c, batch_ids[c], TRUE)
          /\ UNCHANGED inTxn
     ELSE /\ inTxn' = [inTxn EXCEPT ![c] = TRUE]
          /\ cpc' = [cpc EXCEPT ![c] = "select"]
          /\ UNCHANGED <<got, ret>>
  /\ UNCHANGED <<files, cn, batch_ids, lock, wr, calls, cop, wops>>

\* What connection c reads: the committed table and its own uncommitted UPDATE.
ConnView(c) == UpdateInProgress(files, wr[c], ConnJob(c))

\* for row in cur.execute('SELECT ...'): batch_ids.append(...)
\* SHARED is refused only behind a PENDING lock; with two connections a PENDING
\* lock waits for this connection's own SHARED lock, so the SELECT never waits.
ConcSelect(c) ==
  /\ UNCHANGED <<storeVars, coordVars, dynVars, shardVars, toolVars>>
  /\ cpc[c] = "select"
  /\ lock' = [lock EXCEPT ![c] = IF @ = "none" THEN "shared" ELSE @]
  /\ batch_ids' = [batch_ids EXCEPT ![c] = SelectBatch(ConnView(c), cn[c])]
  /\ cpc' = [cpc EXCEPT ![c] = "update"]
  /\ UNCHANGED <<files, cn, inTxn, wr, got, calls, cop, wops, ret>>

ReservedBlocked(c) ==
  /\ lock[c] \in {"none", "shared"}
  /\ \E o \in Others(c) : lock[o] \in {"reserved", "pending"}

\* cur.execute('UPDATE files SET state = ?, job = ? where id in (...)')
\* When another connection holds RESERVED the statement fails and the except
\* clause falls through to the return, batch_ids still filled by the SELECT.
ConcUpdate(c) ==
  /\ UNCHANGED <<storeVars, coordVars, dynVars, shardVars, toolVars>>
  /\ cpc[c] = "update"
  /\ IF ReservedBlocked(c)
     THEN /\ ReturnBatch(c, batch_ids[c], TRUE)
          /\ UNCHANGED <<lock, wr>>
     ELSE /\ lock' = [lock EXCEPT ![c] = IF @ = "pending" THEN @ ELSE "reserved"]
          /\ wr' = [wr EXCEPT ![c] = batch_ids[c]]
          /\ cpc' = [cpc EXCEPT ![c] = "commit"]
          /\ UNCHANGED <<got, ret>>
  /\ UNCHANGED <<files, cn, batch_ids, inTxn, calls, cop, wops>>

\* The transaction open on c has changed a page.
Dirty(c) == wr[c] # <<>> \/ \E k \in 1..Len(wops[c]) : wops[c][k].dirty
\* COMMIT needs EXCLUSIVE only when pages were changed.
ExclusiveBlocked(c) == Dirty(c) /\ \E o \in Others(c) : lock[o] # "none"

\* self.conn.commit(), then the return.
ConcCommit(c) ==
  /\ UNCHANGED <<storeVars, coordVars, dynVars, shardVars, toolVars>>
  /\ cpc[c] = "commit"
  /\ ~ExclusiveBlocked(c)
  /\ files' = UpdateInProgress(files, wr[c], ConnJob(c))
  /\ wr' = [wr EXCEPT ![c] = <<>>]
  /\ lock' = [lock EXCEPT ![c] = "none"]
  /\ inTxn' = [inTxn EXCEPT ![c] = FALSE]
  /\ ReturnBatch(c, batch_ids[c], FALSE)
  /\ UNCHANGED <<cn, batch_ids, calls, cop, wops>>

\* self.conn.commit() waiting for the readers to leave: PENDING is taken.
ConcCommitWait(c) ==
  /\ UNCHANGED <<storeVars, coordVars, dynVars, shardVars, toolVars>>
  /\ cpc[c] = "commit"
  /\ ExclusiveBlocked(c)
  /\ lock[c] = "reserved"
  /\ lock' = [lock EXCEPT ![c] = "pending"]
  /\ UNCHANGED <<files, cpc, cn, batch_ids, inTxn, wr, got, calls, cop, wops, ret>>

\* self.conn.commit() times out: OperationalError, the transaction stays open.
ConcCommitBusy(c) ==
  /\ UNCHANGED <<storeVars, coordVars, dynVars, shardVars, toolVars>>
  /\ cpc[c] = "commit"
  /\ ExclusiveBlocked(c)
  /\ lock[c] = "pending"
  /\ ReturnBatch(c, batch_ids[c], TRUE)
  /\ UNCHANGED <<files, cn, batch_ids, inTxn, lock, wr, calls, cop, wops>>

\* ---- clear_batch, complete_batch, complete_batch_files on the same connections
\* A write operation is one UPDATE (sqlite3 opens a transaction before it when
\* none is open) and self.conn.commit(); either raises OperationalError when the
\* lock it needs is held elsewhere, and the except clause returns False.

WriteOpNames == {"clear_batch", "complete_batch", "complete_batch_files"}

\* The UPDATE of a write operation applied to a table.
ApplyWrite(f, w) ==
  CASE w.op = "clear_batch" -> ClearBatch(f, w.job)
    [] w.op = "complete_batch" -> CompleteBatch(f, w.job)
    [] w.op = "complete_batch_files" -> CompleteBatchFiles(f, w.paths)

RECURSIVE ApplyWrites(_, _)
ApplyWrites(f, ws) ==
  IF ws = <<>> THEN f ELSE ApplyWrites(ApplyWrite(f, Head(ws)), Tail(ws))

\* The table as connection c sees it: the committed rows and its own
\* uncommitted UPDATEs, in the order they were executed.
ConnViewAll(c) == ApplyWrites(ConnView(c), wops[c])

\* return True, or return False from the except clause
ReturnBool(c, ok, error) ==
  /\ ret' = [ret EXCEPT ![c] = Return(cop[c].op, error, ok, <<>>)]
  /\ cop' = [cop EXCEPT ![c] = NoOp]
  /\ cpc' = [cpc EXCEPT ![c] = "idle"]

\* clear_batch(job_id), complete_batch(job_id) or complete_batch_files(files)
ConcWriteCall(c, op, paths) ==
  /\ UNCHANGED <<storeVars, coordVars, dynVars, shardVars, toolVars>>
  /\ cpc[c] = "idle"
  /\ calls[c] < MaxCalls
  /\ calls' = [calls EXCEPT ![c] = @ + 1]
  /\ cop' = [cop EXCEPT ![c] = WriteOp(op, ConnJob(c), paths)]
  /\ cpc' = [cpc EXCEPT ![c] = "wupdate"]
  /\ UNCHANGED <<files, cn, batch_ids, inTxn, lock, wr, got, wops, ret>>

\* cur.execute('UPDATE files SET ...')
ConcWriteUpdate(c) ==
  /\ UNCHANGED <<storeVars, coordVars, dynVars, shardVars, toolVars>>
  /\ cpc[c] = "wupdate"
  /\ inTxn' = [inTxn EXCEPT ![c] = TRUE]
  /\ IF ReservedBlocked(c)
     THEN /\ ReturnBool(c, FALSE, TRUE)
          /\ UNCHANGED <<lock, wops>>
     ELSE /\ lock' = [lock EXCEPT ![c] = IF @ = "pending" THEN @ ELSE "reserved"]
          /\ wops' = [wops EXCEPT ![c] =
               Append(@, [op |-> cop[c].op, job |-> cop[c].job, paths |-> cop[c].paths,
                          dirty |-> ApplyWrite(ConnViewAll(c), cop[c]) # ConnViewAll(c)])]
          /\ cpc' = [cpc EXCEPT ![c] = "wcommit"]
          /\ UNCHANGED <<cop, ret>>
  /\ UNCHANGED <<files, cn, batch_ids, wr, got, calls>>

\* self.conn.commit(), then return True: everything uncommitted on the
\* connection is written.
ConcWriteCommit(c) ==
  /\ UNCHANGED <<storeVars, coordVars, dynVars, shardVars, toolVars>>
  /\ cpc[c] = "wcommit"
  /\ ~ExclusiveBlocked(c)
  /\ files' = ConnViewAll(c)
  /\ wr' = [wr EXCEPT ![c] = <<>>]
  /\ wops' = [wops EXCEPT ![c] = <<>>]
  /\ lock' = [lock EXCEPT ![c] = "none"]
  /\ inTxn' = [inTxn EXCEPT ![c] = FALSE]
  /\ ReturnBool(c, TRUE, FALSE)
  /\ UNCHANGED <<cn, batch_ids, got, calls>>

\* self.conn.commit() waiting for the readers to leave: PENDING is taken.
ConcWriteCommitWait(c) ==
  /\ UNCHANGED <<storeVars, coordVars, dynVars, shardVars, toolVars>>
  /\ cpc[c] = "wcommit"
  /\ ExclusiveBlocked(c)
  /\ lock[c] = "reserved"
  /\ lock' = [lock EXCEPT ![c] = "pending"]
  /\ UNCHANGED <<files, cpc, cn, batch_ids, inTxn, wr, got, calls, cop, wops, ret>>

\* self.conn.commit() times out: OperationalError, return False.
ConcWriteCommitBusy(c) ==
  /\ UNCHANGED <<storeVars, coordVars, dynVars, shardVars, toolVars>>
  /\ cpc[c] = "wcommit"
  /\ ExclusiveBlocked(c)
  /\ lock[c] = "pending"
  /\ ReturnBool(c, FALSE, TRUE)
  /\ UNCHANGED <<files, cn, batch_ids, inTxn, lock, wr, got, calls, wops>>


\* --------------- SpecCoord: coordinator, static scanner runs, control client

Runs == {1, 2}
CtrlClients == {1}
\* args.count and args.procs of a scanner run.
RunCounts == {1, 2}
Procs == {1, 2}

\* A reply (type, data): data is None or a list of paths.
Reply(type, isNone, data) == [type |-> type, isNone |-> isNone, data |-> data]
NoReply == Reply("none", TRUE, <<>>)

\* (ZMSG_NEWJOB, (job_id, count)) and (ZMSG_FINISHED, (job_id, num_files, ok))
NewJobMsg(r, job, n) ==
  [sock |-> "jobs", from |-> r, type |-> "NEWJOB", job |-> job, n |-> n,
   ok |-> FALSE, shape |-> "tuple"]
FinishedMsg(r, job, ok) ==
  [sock |-> "jobs", from |-> r, type |-> "FINISHED", job |-> job, n |-> 0,
   ok |-> ok, shape |-> "tuple"]
\* (ZMSG_LOCAL_EXIT, None)
ExitMsg(k) ==
  [sock |-> "ctrl", from |-> k, type |-> "EXIT", job |-> NULL, n |-> 0,
   ok |-> FALSE, shape |-> "none"]
\* (ZMSG_LOCAL_RESET_JOB, payload): clueweb_coordinator_ctrl.py sends the bare
\* job id ("bare"); the coordinator unpacks a 1-tuple ("tuple").
ResetMsg(k, job, shape) ==
  [sock |-> "ctrl", from |-> k, type |-> "RESET_JOB", job |-> job, n |-> 0,
   ok |-> FALSE, shape |-> shape]
PayloadShapes == {"bare", "tuple"}

CoordInit ==
  /\ coord = "running"
  /\ done = FALSE
  /\ jobsQ = {}
  /\ ctrlQ = {}
  /\ jobsReply = [r \in Runs |-> NoReply]
  /\ ctrlReply = [k \in CtrlClients |-> NoReply]
  /\ rpc = [r \in Runs |-> "idle"]
  /\ rjob = [r \in Runs |-> NULL]
  /\ rfiles = [r \in Runs |-> <<>>]
  /\ rok = [r \in Runs |-> FALSE]
  /\ kpc = [k \in CtrlClients |-> "idle"]
  /\ scannedOK = {}

\* zmq_sock_jobs.send_pyobj((reply_type, reply_data)): the socket the reply is
\* sent on, whatever socket the request came from.
ReplySocket(sock) == "jobs"

\* remote_job, = msgdata: unpacking anything but a 1-tuple raises TypeError.
UnpackFails(m) == m.type = "RESET_JOB" /\ m.shape # "tuple"

\* The if/elif chain with the test of completed_ok dropped from FINISHED.
HandledFilesIgnoringOk(m) ==
  CASE m.type = "NEWJOB" -> GetNextBatch(files, m.job, m.n).files
    [] m.type = "FINISHED" -> CompleteBatch(files, m.job)
    [] m.type = "RESET_JOB" -> ClearBatch(files, m.job)
    [] OTHER -> files

\* The table after the branch of the if/elif chain that m selects.
HandledFiles(m) ==
  CASE m.type = "NEWJOB" -> GetNextBatch(files, m.job, m.n).files
    [] m.type = "FINISHED" -> IF m.ok THEN CompleteBatch(files, m.job) ELSE files
    [] m.type = "RESET_JOB" -> ClearBatch(files, m.job)
    [] OTHER -> files

\* reply_type, reply_data = ZMSG_ACK, None; reply_data = next_batch for NEWJOB
ReplyTo(m) ==
  IF m.type = "NEWJOB"
  THEN Reply("ACK", FALSE, GetNextBatch(files, m.job, m.n).paths)
  ELSE Reply("ACK", TRUE, <<>>)

\* One iteration of the while loop that took m from socket m.sock.
\* A REP socket that is sent on without a request received raises ZMQError;
\* no exception is caught in run().
CoordHandle(m) ==
  /\ IF UnpackFails(m)
     THEN /\ coord' = "TypeError"
          /\ UNCHANGED <<files, done, jobsReply, ctrlReply>>
     ELSE /\ files' = HandledFiles(m)
          /\ done' = (done \/ m.type = "EXIT")
          /\ IF ReplySocket(m.sock) # m.sock
             THEN /\ coord' = "ZMQError"
                  /\ UNCHANGED <<jobsReply, ctrlReply>>
             ELSE /\ coord' = IF done' THEN "exited" ELSE "running"
                  /\ IF m.sock = "jobs"
                     THEN /\ jobsReply' = [jobsReply EXCEPT ![m.from] = ReplyTo(m)]
                          /\ UNCHANGED ctrlReply
                     ELSE /\ ctrlReply' = [ctrlReply EXCEPT ![m.from] = ReplyTo(m)]
                          /\ UNCHANGED jobsReply

\* msgtype, msgdata = zmq_sock_jobs.recv_pyobj(zmq.DONTWAIT)
CoordJobs(m) ==
  /\ coord = "running"
  /\ m \in jobsQ
  /\ jobsQ' = jobsQ \ {m}
  /\ CoordHandle(m)
  /\ UNCHANGED <<storeVars, concVars, dynVars, shardVars, toolVars, ctrlQ, rpc, rjob, rfiles, rok, kpc, scannedOK>>

\* The control socket is read only when the jobs socket had nothing.
CoordCtrl(m) ==
  /\ coord = "running"
  /\ jobsQ = {}
  /\ m \in ctrlQ
  /\ ctrlQ' = ctrlQ \ {m}
  /\ CoordHandle(m)
  /\ UNCHANGED <<storeVars, concVars, dynVars, shardVars, toolVars, jobsQ, rpc, rjob, rfiles, rok, kpc, scannedOK>>

\* ClueWebMetadataScanner.run(): send NEWJOB.
RunStart(r, job, n) ==
  /\ rpc[r] = "idle"
  /\ jobsQ' = jobsQ \cup {NewJobMsg(r, job, n)}
  /\ rpc' = [rpc EXCEPT ![r] = "wait_files"]
  /\ rjob' = [rjob EXCEPT ![r] = job]
  /\ rfiles' = [rfiles EXCEPT ![r] = <<>>]
  /\ rok' = [rok EXCEPT ![r] = FALSE]
  /\ UNCHANGED <<files, storeVars, concVars, dynVars, shardVars, toolVars, coord, done, ctrlQ, jobsReply, ctrlReply,
                 kpc, scannedOK>>

\* Number of paths among the first i of batch whose scan raises.
RECURSIVE BadUpTo(_, _, _)
BadUpTo(batch, bad, i) ==
  IF i = 0 THEN 0
  ELSE BadUpTo(batch, bad, i - 1) + (IF batch[i] \in bad THEN 1 ELSE 0)

\* The worker loop of run() with procs processes running gather_metadata: paths
\* are handed out in batch order to whichever process asks; a process whose scan
\* raises stops asking and reports False; the others go on until MSG_NOFILES.
StaticScan(batch, bad, procs) ==
  LET stops == {i \in 1..Len(batch) : BadUpTo(batch, bad, i) = procs}
      handed == IF stops = {} THEN Len(batch)
                ELSE CHOOSE i \in stops : \A j \in stops : i <= j
  IN [scanned |-> {batch[i] : i \in {j \in 1..handed : batch[j] \notin bad}},
      ok      |-> BadUpTo(batch, bad, handed) = 0]

\* run() from the reply to NEWJOB to the sending of FINISHED, as the coordinator
\* and the run see it: the reply is received, the batch is scanned by the worker
\* processes, FINISHED is sent.
RunScanBody(r, bad, procs) ==
  /\ rpc[r] = "wait_files"
  /\ jobsReply[r] # NoReply
  /\ jobsReply' = [jobsReply EXCEPT ![r] = NoReply]
  /\ IF jobsReply[r].type # "ACK" \/ jobsReply[r].isNone
     THEN /\ bad = {}
          /\ rpc' = [rpc EXCEPT ![r] = "idle"]
          /\ rjob' = [rjob EXCEPT ![r] = NULL]
          /\ UNCHANGED <<rfiles, rok, scannedOK, jobsQ>>
     ELSE LET data_files == jobsReply[r].data
              res == StaticScan(data_files, bad, procs)
          IN /\ bad \subseteq SeqRange(data_files)
             /\ rfiles' = [rfiles EXCEPT ![r] = data_files]
             /\ scannedOK' = scannedOK \cup res.scanned
             /\ rok' = [rok EXCEPT ![r] = res.ok]
             /\ jobsQ' = jobsQ \cup {FinishedMsg(r, rjob[r], res.ok)}
             /\ rpc' = [rpc EXCEPT ![r] = "wait_ack"]
             /\ UNCHANGED rjob
  /\ UNCHANGED <<files, storeVars, concVars, dynVars, toolVars, coord, done, ctrlQ, ctrlReply, kpc>>

\* The run with the output directory left out of the picture.
RunScan(r, bad, procs) ==
  /\ RunScanBody(r, bad, procs)
  /\ UNCHANGED shardVars

\* self.zmq_sock.recv_pyobj() after FINISHED: run() returns.
RunRecvAck(r) ==
  /\ rpc[r] = "wait_ack"
  /\ jobsReply[r] # NoReply
  /\ jobsReply' = [jobsReply EXCEPT ![r] = NoReply]
  /\ rpc' = [rpc EXCEPT ![r] = "idle"]
  /\ rjob' = [rjob EXCEPT ![r] = NULL]
  /\ rfiles' = [rfiles EXCEPT ![r] = <<>>]
  /\ rok' = [rok EXCEPT ![r] = FALSE]
  /\ UNCHANGED <<files, storeVars, concVars, dynVars, shardVars, toolVars, coord, done, jobsQ, ctrlQ, ctrlReply,
                 kpc, scannedOK>>

\* The scanner is killed with its batch in hand: no FINISHED is ever sent.
RunCrash(r) ==
  /\ rpc[r] = "wait_files"
  /\ jobsReply[r] # NoReply
  /\ jobsReply' = [jobsReply EXCEPT ![r] = NoReply]
  /\ rpc' = [rpc EXCEPT ![r] = "idle"]
  /\ rjob' = [rjob EXCEPT ![r] = NULL]
  /\ UNCHANGED <<files, storeVars, concVars, dynVars, shardVars, toolVars, coord, done, jobsQ, ctrlQ, ctrlReply,
                 rfiles, rok, kpc, scannedOK>>

\* clueweb_coordinator_ctrl.py: send_pyobj, then recv_pyobj.
CtrlSend(m) ==
  /\ kpc[m.from] = "idle"
  /\ ctrlQ' = ctrlQ \cup {m}
  /\ kpc' = [kpc EXCEPT ![m.from] = "waiting"]
  /\ UNCHANGED <<files, storeVars, concVars, dynVars, shardVars, toolVars, coord, done, jobsQ, jobsReply, ctrlReply,
                 rpc, rjob, rfiles, rok, scannedOK>>

CtrlMsgs ==
  {ExitMsg(k) : k \in CtrlClients}
    \cup {ResetMsg(k, job, sh) : k \in CtrlClients, job \in Jobs, sh \in PayloadShapes}

\* A message whose type is none of NEWJOB, FINISHED, EXIT, RESET_JOB.
UnknownMsg(sock, from) ==
  [sock |-> sock, from |-> from, type |-> "UNKNOWN", job |-> NULL, n |-> 0,
   ok |-> FALSE, shape |-> "none"]

\* A client of the jobs socket sends a message of unknown type and waits for
\* the reply, as every REQ socket must.
JobsSendUnknown(r) ==
  /\ rpc[r] = "idle"
  /\ jobsQ' = jobsQ \cup {UnknownMsg("jobs", r)}
  /\ rpc' = [rpc EXCEPT ![r] = "wait_ack"]
  /\ UNCHANGED <<files, storeVars, concVars, dynVars, shardVars, toolVars, coord, done, ctrlQ, jobsReply, ctrlReply,
                 rjob, rfiles, rok, kpc, scannedOK>>

\* ------------------------------------------------------------ shard files

NoShard == [exists |-> FALSE, rows |-> <<>>]
\* open(output_csv, 'w'): the file is created, or truncated when it exists.
OpenForWrite(shard) == [exists |-> TRUE, rows |-> <<>>]

\* The ClueWeb22-IDs of the records of a container, ascending; containers with
\* a higher row id hold higher ids.
FileKeys(path) == <<2 * path[2] - 1, 2 * path[2]>>

\* for r in records: csvwriter.writerow(r)
WriteRows(shard, path) == [shard EXCEPT !.rows = @ \o FileKeys(path)]

\* ---------------- SpecDyn: the dynamic supervisor, its workers, clueweb_ctrl

Workers == 0..(NumWorkers - 1)
\* Worker indices clueweb_ctrl.py is given (type=int): the valid ones, one too
\* large and one negative.
WorkerArgs == (-1)..NumWorkers

\* pipes[worker_id] on the list pipes: a negative index counts from the end.
PipeIndex(worker_id) == IF worker_id < 0 THEN NumWorkers + worker_id ELSE worker_id

\* db_id = f'{self.job_id}-worker{worker_id}'
DbId(i) == "clueweb_metadata_scanner-worker" \o ToString(i)

NoReq == [type |-> "none", worker |-> 0]
CtrlReq(type, i) == [type |-> type, worker |-> i]
ToWorkerMsg(type, path) == [type |-> type, path |-> path]
ToParentMsg(type, path, ok) == [type |-> type, path |-> path, ok |-> ok]

DynInit ==
  /\ workers_active = [i \in Workers |-> FALSE]
  /\ toWorker = [i \in Workers |-> <<>>]
  /\ toParent = [i \in Workers |-> <<>>]
  /\ wpc = [i \in Workers |-> "start"]
  /\ wfile = [i \in Workers |-> NoPath]
  /\ completed_ok = [i \in Workers |-> TRUE]
  /\ num_finished = 0
  /\ zreq = NoReq
  /\ zack = FALSE
  /\ nctl = 0
  /\ failed = {}
  /\ dshard = [i \in Workers |-> NoShard]
  /\ druns = 0

\* send_file_to_worker: the table and the pipe of worker i afterwards.
SendFileToWorker(f, pipe, i) ==
  LET b == GetNextBatch(f, DbId(i), 1)
  IN [files |-> b.files,
      pipe  |-> IF Len(b.paths) = 0
                THEN Append(pipe, ToWorkerMsg("NOFILES", NoPath))
                ELSE Append(pipe, ToWorkerMsg("NEW_FILE", b.paths[1]))]

\* self.workers_active[worker_id] = value on the dict workers_active: a key that
\* is not there yet is added.
SetActive(active, worker_id, value) ==
  [k \in DOMAIN active \cup {worker_id} |-> IF k = worker_id THEN value ELSE active[k]]

\* clueweb_ctrl.py: send (msgtype, worker index) and wait for the reply.
DynCtrlSend(type, i) ==
  /\ nctl < MaxCtrl
  /\ zreq = NoReq
  /\ ~zack
  /\ zreq' = CtrlReq(type, i)
  /\ nctl' = nctl + 1
  /\ UNCHANGED <<files, storeVars, concVars, coordVars, shardVars, toolVars, failed, dshard, druns, workers_active, toWorker,
                 toParent, wpc, wfile, completed_ok, num_finished, zack>>

\* clueweb_ctrl.py: sock.recv_pyobj()
DynCtrlRecvAck ==
  /\ zack
  /\ zack' = FALSE
  /\ UNCHANGED <<files, storeVars, concVars, coordVars, shardVars, toolVars, failed, dshard, druns, workers_active, toWorker,
                 toParent, wpc, wfile, completed_ok, num_finished, zreq, nctl>>

\* run(): a control message is received, handled and answered with ACK.
DynHandleCtrl ==
  /\ zreq # NoReq
  /\ zreq' = NoReq
  /\ zack' = TRUE
  /\ LET worker_id == zreq.worker
     IN IF worker_id >= NumWorkers
        THEN UNCHANGED <<files, workers_active, toWorker>>
        ELSE IF zreq.type = "RESUME"
        THEN LET p == PipeIndex(worker_id)
                 sent == SendFileToWorker(files, toWorker[p], worker_id)
             IN /\ workers_active' = SetActive(workers_active, worker_id, TRUE)
                /\ files' = sent.files
                /\ toWorker' = [toWorker EXCEPT ![p] = sent.pipe]
        ELSE /\ workers_active' = SetActive(workers_active, worker_id, FALSE)
             /\ UNCHANGED <<files, toWorker>>
  /\ UNCHANGED <<storeVars, concVars, coordVars, shardVars, toolVars, failed, dshard, druns, toParent, wpc, wfile, completed_ok,
                 num_finished, nctl>>

\* run(): one message read from the pipe of worker i.
DynHandlePipe(i) ==
  /\ toParent[i] # <<>>
  /\ toParent' = [toParent EXCEPT ![i] = Tail(@)]
  /\ LET data == Head(toParent[i])
     IN IF data.type = "FINISHED"
        THEN /\ num_finished' = num_finished + 1
             /\ UNCHANGED <<files, toWorker>>
        ELSE LET marked == IF data.path # NoPath
                           THEN CompleteBatchFiles(files, <<data.path>>)
                           ELSE files
             IN /\ UNCHANGED num_finished
                /\ IF ~workers_active[i]
                   THEN /\ files' = marked
                        /\ toWorker' = [toWorker EXCEPT ![i] =
                                          Append(@, ToWorkerMsg("PAUSE", NoPath))]
                   ELSE LET sent == SendFileToWorker(marked, toWorker[i], i)
                        IN /\ files' = sent.files
                           /\ toWorker' = [toWorker EXCEPT ![i] = sent.pipe]
  /\ UNCHANGED <<storeVars, concVars, coordVars, shardVars, toolVars, failed, dshard, druns, workers_active, wpc, wfile,
                 completed_ok, zreq, zack, nctl>>

\* gather_metadata up to the loop: an exception when the shard exists, which
\* ends the process; otherwise open(output_csv, 'w').
WorkerStart(i) ==
  /\ wpc[i] = "start"
  /\ IF dshard[i].exists
     THEN /\ wpc' = [wpc EXCEPT ![i] = "dead"]
          /\ UNCHANGED dshard
     ELSE /\ wpc' = [wpc EXCEPT ![i] = "recv"]
          /\ dshard' = [dshard EXCEPT ![i] = OpenForWrite(@)]
  /\ UNCHANGED <<files, storeVars, concVars, coordVars, shardVars, toolVars, failed, druns,
                 workers_active, toWorker, toParent, wfile, completed_ok,
                 num_finished, zreq, zack, nctl>>

\* The supervisor and its workers are killed between two control commands and
\* the program is started again on the same database and output directory.
DynRestart ==
  /\ druns < MaxRestarts
  /\ zreq = NoReq
  /\ ~zack
  /\ druns' = druns + 1
  /\ workers_active' = [i \in Workers |-> FALSE]
  /\ toWorker' = [i \in Workers |-> <<>>]
  /\ toParent' = [i \in Workers |-> <<>>]
  /\ wpc' = [i \in Workers |-> "start"]
  /\ wfile' = [i \in Workers |-> NoPath]
  /\ completed_ok' = [i \in Workers |-> TRUE]
  /\ num_finished' = 0
  /\ UNCHANGED <<files, storeVars, concVars, coordVars, shardVars, toolVars, failed, dshard,
                 zreq, zack, nctl>>

\* gather_metadata: msgtype, msgdata = pipew.recv()
WorkerRecv(i) ==
  /\ wpc[i] = "recv"
  /\ toWorker[i] # <<>>
  /\ toWorker' = [toWorker EXCEPT ![i] = Tail(@)]
  /\ LET msg == Head(toWorker[i])
     IN CASE msg.type = "PAUSE" ->
               UNCHANGED <<toParent, wpc, wfile>>
          [] msg.type = "NOFILES" ->
               /\ toParent' = [toParent EXCEPT ![i] =
                                 Append(@, ToParentMsg("FINISHED", NoPath, completed_ok[i]))]
               /\ wpc' = [wpc EXCEPT ![i] = "exited"]
               /\ UNCHANGED wfile
          [] OTHER ->
               /\ wpc' = [wpc EXCEPT ![i] = "scan"]
               /\ wfile' = [wfile EXCEPT ![i] = msg.path]
               /\ UNCHANGED toParent
  /\ UNCHANGED <<files, storeVars, concVars, coordVars, shardVars, toolVars, failed, dshard, druns, workers_active, completed_ok,
                 num_finished, zreq, zack, nctl>>

\* gather_metadata reporting the path of the file whether or not the scan raised.
WorkerScannedReportsPath(i, ok) ==
  /\ wpc[i] = "scan"
  /\ wpc' = [wpc EXCEPT ![i] = "recv"]
  /\ wfile' = [wfile EXCEPT ![i] = NoPath]
  /\ toParent' = [toParent EXCEPT ![i] =
                    Append(@, ToParentMsg("FILE_SCANNED", wfile[i], TRUE))]
  /\ completed_ok' = [completed_ok EXCEPT ![i] = @ /\ ok]
  /\ failed' = IF ok THEN failed ELSE failed \cup {wfile[i]}
  /\ dshard' = IF ok THEN [dshard EXCEPT ![i] = WriteRows(@, wfile[i])] ELSE dshard
  /\ UNCHANGED <<files, storeVars, concVars, coordVars, shardVars, toolVars, workers_active,
                 toWorker, num_finished, zreq, zack, nctl, druns>>

\* gather_metadata: the scan of the file ends, with or without an exception.
WorkerScanned(i, ok) ==
  /\ wpc[i] = "scan"
  /\ wpc' = [wpc EXCEPT ![i] = "recv"]
  /\ wfile' = [wfile EXCEPT ![i] = NoPath]
  /\ toParent' = [toParent EXCEPT ![i] =
                    Append(@, ToParentMsg("FILE_SCANNED",
                                          IF ok THEN wfile[i] ELSE NoPath, TRUE))]
  /\ completed_ok' = [completed_ok EXCEPT ![i] = @ /\ ok]
  /\ failed' = IF ok THEN failed ELSE failed \cup {wfile[i]}
  /\ dshard' = IF ok THEN [dshard EXCEPT ![i] = WriteRows(@, wfile[i])] ELSE dshard
  /\ UNCHANGED <<files, storeVars, concVars, coordVars, shardVars, toolVars, workers_active,
                 toWorker, num_finished, zreq, zack, nctl, druns>>

\* ----------- SpecShard: the processes of static scanner runs and their shards

\* Process indices of a run with the largest number of processes.
ProcIds == 0..1
\* output_csv = self.job_id + f'-w{worker_id}.csv'
ShardName(job, w) == <<job, w>>
ShardNames == {ShardName(job, w) : job \in Jobs, w \in ProcIds}

\* The batches get_next_batch can return: paths in ascending id order.
Batches ==
  {[k \in 1..Len(OrderByIdAsc(S)) |-> PathOf(OrderByIdAsc(S)[k])] : S \in SUBSET Ids}

ShardInit ==
  /\ sdir = [name \in ShardNames |-> NoShard]
  /\ sjob = NULL
  /\ sbatch = <<>>
  /\ scur = 0
  /\ sproc = [w \in ProcIds |-> "none"]
  /\ sfile = [w \in ProcIds |-> NoPath]
  /\ sok = [w \in ProcIds |-> TRUE]
  /\ sruns = 0

\* run(): the batch has been received and the processes are started.
ShardRunStart(job, batch, procs) ==
  /\ sjob = NULL
  /\ sruns < MaxRuns
  /\ sruns' = sruns + 1
  /\ sjob' = job
  /\ sbatch' = batch
  /\ scur' = 0
  /\ sproc' = [w \in ProcIds |-> IF w < procs THEN "spawned" ELSE "none"]
  /\ sfile' = [w \in ProcIds |-> NoPath]
  /\ sok' = [w \in ProcIds |-> TRUE]
  /\ UNCHANGED <<files, storeVars, concVars, coordVars, dynVars, toolVars, sdir>>

\* gather_metadata: with open(output_csv, 'w') as csvfile
ProcOpen(w) ==
  /\ sproc[w] = "spawned"
  /\ sdir' = [sdir EXCEPT ![ShardName(sjob, w)] = OpenForWrite(@)]
  /\ sproc' = [sproc EXCEPT ![w] = "ask"]
  /\ UNCHANGED <<files, storeVars, concVars, coordVars, dynVars, toolVars, sjob, sbatch, scur,
                 sfile, sok, sruns>>

\* gather_metadata asks for a file and run() answers with the next path of
\* data_files, or with MSG_NOFILES, on which the process exits.
ProcAsk(w) ==
  /\ sproc[w] = "ask"
  /\ IF scur >= Len(sbatch)
     THEN /\ sproc' = [sproc EXCEPT ![w] = "exited"]
          /\ UNCHANGED <<scur, sfile>>
     ELSE /\ sfile' = [sfile EXCEPT ![w] = sbatch[scur + 1]]
          /\ scur' = scur + 1
          /\ sproc' = [sproc EXCEPT ![w] = "scan"]
  /\ UNCHANGED <<files, storeVars, concVars, coordVars, dynVars, toolVars, sdir, sjob, sbatch,
                 sok, sruns>>

\* gather_metadata: the container is read and its rows written, or an exception
\* ends the loop with completed_ok = False.
ProcScanned(w, ok) ==
  /\ sproc[w] = "scan"
  /\ sfile' = [sfile EXCEPT ![w] = NoPath]
  /\ IF ok
     THEN /\ sdir' = [sdir EXCEPT ![ShardName(sjob, w)] = WriteRows(@, sfile[w])]
          /\ sproc' = [sproc EXCEPT ![w] = "ask"]
          /\ UNCHANGED sok
     ELSE /\ sok' = [sok EXCEPT ![w] = FALSE]
          /\ sproc' = [sproc EXCEPT ![w] = "exited"]
          /\ UNCHANGED sdir
  /\ UNCHANGED <<files, storeVars, concVars, coordVars, dynVars, toolVars, sjob, sbatch, scur,
                 sruns>>

\* run(): num_finished, num_successful and len(processes) as the worker loop
\* has counted them from the MSG_FINISHED messages.
NumSuccessful == Cardinality({w \in ProcIds : sproc[w] = "exited" /\ sok[w]})
NumProcesses == Cardinality({w \in ProcIds : sproc[w] # "none"})
\* The result with num_successful > 0 in place of the comparison.
FinishedOkAny == NumSuccessful > 0
\* The result put in ZMSG_FINISHED: num_successful == len(processes).
FinishedOk == NumSuccessful = NumProcesses

\* run(): every process has sent MSG_FINISHED; the run returns.
ShardRunEnd ==
  /\ sjob # NULL
  /\ \A w \in ProcIds : sproc[w] \in {"none", "exited"}
  /\ sjob' = NULL
  /\ sbatch' = <<>>
  /\ scur' = 0
  /\ sproc' = [w \in ProcIds |-> "none"]
  /\ sok' = [w \in ProcIds |-> TRUE]
  /\ UNCHANGED <<files, storeVars, concVars, coordVars, dynVars, toolVars, sdir, sfile, sruns>>

\* ------ SpecPipeline: coordinator, static runs and the shards the runs write

\* The rows a container emits when its scan succeeds: as many as the store
\* declares for it, each carrying the container's id.
DeclaredRows(path) == [k \in 1..RecordsOf(path[2]) |-> path[2]]

\* Number of paths of the batch the worker loop hands out: it stops when every
\* process has ended on a scan that raised.
Handed(batch, bad, procs) ==
  LET stops == {i \in 1..Len(batch) : BadUpTo(batch, bad, i) = procs}
  IN IF stops = {} THEN Len(batch)
     ELSE CHOOSE i \in stops : \A j \in stops : i <= j

\* Which process asked for which path: a process whose scan raised asks no more.
Owners(batch, bad, procs) ==
  {o \in [1..Handed(batch, bad, procs) -> 0..(procs - 1)] :
     \A i, j \in DOMAIN o : (i < j /\ batch[i] \in bad) => o[j] # o[i]}
OwnerLists == UNION {[1..k -> ProcIds] : k \in 0..NumFiles}

\* What process w has written once the first i paths are dealt with.
RECURSIVE RowsWritten(_, _, _, _, _)
RowsWritten(batch, bad, owner, w, i) ==
  IF i = 0 THEN <<>>
  ELSE RowsWritten(batch, bad, owner, w, i - 1)
         \o (IF owner[i] = w /\ batch[i] \notin bad THEN DeclaredRows(batch[i]) ELSE <<>>)

\* The output directory after a run of procs processes under job: each process
\* opens its shard with 'w' and writes the rows of the paths it scanned.
ScanShards(dir, job, batch, bad, procs, owner) ==
  [name \in DOMAIN dir |->
     IF name[1] = job /\ name[2] < procs
     THEN [exists |-> TRUE,
           rows |-> RowsWritten(batch, bad, owner, name[2], Len(owner))]
     ELSE dir[name]]

\* A run is started on the node while fewer than MaxRuns runs have scanned.
PipeRunStart(r, job, n) ==
  /\ sruns < MaxRuns
  /\ RunStart(r, job, n)

\* run() with its output directory; sruns counts the runs that started their
\* processes.
RunScanShards(r, bad, procs, owner) ==
  /\ RunScanBody(r, bad, procs)
  /\ IF jobsReply[r].type # "ACK" \/ jobsReply[r].isNone
     THEN /\ owner = <<>>
          /\ UNCHANGED <<sdir, sruns>>
     ELSE /\ sruns < MaxRuns
          /\ sruns' = sruns + 1
          /\ owner \in Owners(jobsReply[r].data, bad, procs)
          /\ sdir' = ScanShards(sdir, rjob[r], jobsReply[r].data, bad, procs, owner)
  /\ UNCHANGED <<sjob, sbatch, scur, sproc, sfile, sok>>

\* ---- SpecRestart: a static run that fails is reset and the workers are rerun

\* Job job holds leases that no run is working on: its run failed or was killed.
JobFailed(job) ==
  /\ \E id \in Ids : files[id].state = IN_PROGRESS /\ files[id].job = job
  /\ \A r \in Runs : rjob[r] # job

\* No process has opened a shard yet.
NoShardYet == \A name \in ShardNames : ~sdir[name].exists

\* run() with its output directory, any number of times; only the first scan
\* of the pipeline may hit files whose scan raises, the scans after it succeed.
RestartScan(r, bad, procs, owner) ==
  /\ bad # {} => NoShardYet
  /\ RunScanBody(r, bad, procs)
  /\ IF jobsReply[r].type # "ACK" \/ jobsReply[r].isNone
     THEN /\ owner = <<>>
          /\ UNCHANGED sdir
     ELSE /\ owner \in Owners(jobsReply[r].data, bad, procs)
          /\ sdir' = ScanShards(sdir, rjob[r], jobsReply[r].data, bad, procs, owner)
  /\ UNCHANGED <<sjob, sbatch, scur, sproc, sfile, sok, sruns>>

\* The operator resets a failed job: clueweb_coordinator_ctrl.py -r job.
RestartReset(k, job, shape) ==
  /\ JobFailed(job)
  /\ CtrlSend(ResetMsg(k, job, shape))

\* --------------------------- SpecMerge: the merger (clueweb_heap_sort.py)

\* Largest number of .csv.sorted files in args.input.
MaxInputs == 3
\* Largest number of lines of one input file.
MaxLines == 2
\* Largest first field of a drawn line (one character).
MaxKey == 2
\* Largest remainder of a drawn line (one character after the comma).
MaxRest == 1

\* The line "<key>,<rest>\n".
Line(key, rest) == [key |-> key, rest |-> rest]
Lines == {Line(k, r) : k \in 1..MaxKey, r \in 0..MaxRest}
\* line.split(",")[0]
FirstField(line) == line.key
\* str.__lt__ of two lines: the first differing character decides.
LineLess(a, b) == a.key < b.key \/ (a.key = b.key /\ a.rest < b.rest)

\* An input file sorted ascending by its first field.
SortedFile(c) == \A k \in 1..(Len(c) - 1) : FirstField(c[k]) <= FirstField(c[k + 1])
Contents == {c \in UNION {[1..n -> Lines] : n \in 0..MaxLines} : SortedFile(c)}
\* args.input: files 1..n, each with its lines.
Directories == UNION {[1..n -> Contents] : n \in 0..MaxInputs}
\* Three pre-sorted files with keys {1,4,7}, {2,5,8}, {3,6,9}.
ExampleDir ==
  << <<Line(1, 0), Line(4, 0), Line(7, 0)>>,
     <<Line(2, 0), Line(5, 0), Line(8, 0)>>,
     <<Line(3, 0), Line(6, 0), Line(9, 0)>> >>

\* (line.split(",")[0], line, f)
Entry(line, f) == <<FirstField(line), line, f>>
\* tuple.__lt__ compares the first pair of unequal elements. Two different File
\* objects are unequal and File defines no __lt__: the comparison of two tuples
\* with the same key and the same line raises TypeError.
TupleComparable(a, b) == a[1] # b[1] \/ a[2] # b[2] \/ a[3] = b[3]
TupleLess(a, b) ==
  IF a[1] # b[1] THEN a[1] < b[1]
  ELSE IF a[2] # b[2] THEN LineLess(a[2], b[2])
  ELSE FALSE

Raised(h) == [err |-> TRUE, heap |-> h]
Returned(h) == [err |-> FALSE, heap |-> h]

\* heapq._siftdown(heap, startpos, pos), newitem = heap[pos]; positions from 0.
RECURSIVE SiftDown(_, _, _, _)
SiftDown(h, startpos, pos, newitem) ==
  IF pos > startpos
  THEN LET parentpos == (pos - 1) \div 2
           parent == h[parentpos + 1]
       IN IF ~TupleComparable(newitem, parent) THEN Raised(h)
          ELSE IF TupleLess(newitem, parent)
          THEN SiftDown([h EXCEPT ![pos + 1] = parent], startpos, parentpos, newitem)
          ELSE Returned([h EXCEPT ![pos + 1] = newitem])
  ELSE Returned([h EXCEPT ![pos + 1] = newitem])

\* heapq._siftup(heap, pos): the smaller child is moved up until a leaf is
\* reached, then newitem is sifted down from there.
RECURSIVE SiftUp(_, _, _, _)
SiftUp(h, startpos, pos, newitem) ==
  LET endpos == Len(h)
      childpos == 2 * pos + 1
      rightpos == childpos + 1
  IN IF childpos < endpos
     THEN IF rightpos < endpos /\ ~TupleComparable(h[childpos + 1], h[rightpos + 1])
          THEN Raised(h)
          ELSE LET c == IF rightpos < endpos
                           /\ ~TupleLess(h[childpos + 1], h[rightpos + 1])
                        THEN rightpos ELSE childpos
               IN SiftUp([h EXCEPT ![pos + 1] = h[c + 1]], startpos, c, newitem)
     ELSE SiftDown(h, startpos, pos, newitem)

\* heapq.heappush(heap, item)
HeapPush(h, item) == SiftDown(Append(h, item), 0, Len(h), item)
\* heapq.heappop(heap): the heap that is left behind the returned heap[0].
HeapPop(h) ==
  LET lastelt == h[Len(h)]
      rest == SubSeq(h, 1, Len(h) - 1)
  IN IF rest = <<>> THEN Returned(rest)
     ELSE SiftUp([rest EXCEPT ![1] = lastelt], 0, 0, lastelt)

MergeErrors == {"AttributeError", "TypeError", "IndexError"}

\* run(): every file of args.input is opened, the output file is created.
MergeInit(dir) ==
  /\ minputs = dir
  /\ mpos = [f \in DOMAIN dir |-> 0]
  /\ mfill = DOMAIN dir
  /\ msorted = DOMAIN dir
  /\ heap = <<>>
  /\ mout = <<>>
  /\ mpc = "run"

\* File.read_line: is there a line left
HasLine(f) == mpos[f] < Len(minputs[f])
NextLine(f) == minputs[f][mpos[f] + 1]

\* One pass of "for f in sorted_files.values()": read_line returns None for a
\* file without lines and line.split raises.
MergeFill(f) ==
  /\ mpc = "run"
  /\ f \in mfill
  /\ IF ~HasLine(f)
     THEN /\ mpc' = "AttributeError"
          /\ UNCHANGED <<mpos, mfill, heap>>
     ELSE LET pushed == HeapPush(heap, Entry(NextLine(f), f))
          IN /\ heap' = pushed.heap
             /\ mpos' = [mpos EXCEPT ![f] = @ + 1]
             /\ mfill' = mfill \ {f}
             /\ mpc' = IF pushed.err THEN "TypeError" ELSE "run"
  /\ UNCHANGED <<minputs, msorted, mout>>
  /\ UNCHANGED <<files, storeVars, concVars, coordVars, dynVars, shardVars, offsetVars, restVars>>

\* One pass of "while len(sorted_files) > 0".
MergeStep ==
  /\ mpc = "run"
  /\ mfill = {}
  /\ msorted # {}
  /\ IF heap = <<>>
     THEN /\ mpc' = "IndexError"
          /\ UNCHANGED <<mpos, msorted, heap, mout>>
     ELSE LET src == heap[1][3]
              next_line == heap[1][2]
              popped == HeapPop(heap)
          IN IF popped.err
             THEN /\ mpc' = "TypeError"
                  /\ heap' = popped.heap
                  /\ UNCHANGED <<mpos, msorted, mout>>
             ELSE /\ mout' = Append(mout, next_line)
                  /\ IF HasLine(src)
                     THEN LET pushed == HeapPush(popped.heap, Entry(NextLine(src), src))
                          IN /\ heap' = pushed.heap
                             /\ mpos' = [mpos EXCEPT ![src] = @ + 1]
                             /\ mpc' = IF pushed.err THEN "TypeError" ELSE "run"
                             /\ UNCHANGED msorted
                     ELSE /\ heap' = popped.heap
                          /\ msorted' = msorted \ {src}
                          /\ UNCHANGED <<mpos, mpc>>
  /\ UNCHANGED <<minputs, mfill>>
  /\ UNCHANGED <<files, storeVars, concVars, coordVars, dynVars, shardVars, offsetVars, restVars>>

\* output_file.close()
MergeClose ==
  /\ mpc = "run"
  /\ mfill = {}
  /\ msorted = {}
  /\ mpc' = "done"
  /\ UNCHANGED <<minputs, mpos, mfill, msorted, heap, mout>>
  /\ UNCHANGED <<files, storeVars, concVars, coordVars, dynVars, shardVars, offsetVars, restVars>>

\* ------------------ SpecOffsets: the offset lookup (misc/utils.py get_offsets,
\* clueweb_extract_data.py get_offset)

\* each offset value in the .offset files consists of a 10 digit character
\* string plus a newline
OFFSET_SIZE_BYTES == 11
\* Largest number of values in a drawn offset file.
MaxFields == 4
\* Largest record sequence number looked up.
MaxIndex == 4
\* Largest number of record ids of one call.
MaxIds == 2

NL == "\n"
DigitChars == <<"0", "1", "2", "3", "4", "5", "6", "7", "8", "9">>
\* The decimal digits of n, most significant first. Integers are kept as their
\* digits: the values of an offset file go up to 9999999999.
RECURSIVE DigitsOf(_)
DigitsOf(n) ==
  IF n < 10 THEN <<DigitChars[n + 1]>>
  ELSE Append(DigitsOf(n \div 10), DigitChars[(n % 10) + 1])
Nines == [k \in 1..(OFFSET_SIZE_BYTES - 1) |-> "9"]
OffsetValues == {DigitsOf(0), DigitsOf(100), Nines}

\* One value of an offset file: ten zero-padded digits and a newline.
Field(v) == [k \in 1..(OFFSET_SIZE_BYTES - 1 - Len(v)) |-> "0"] \o v \o <<NL>>
RECURSIVE Encode(_)
Encode(vals) == IF vals = <<>> THEN <<>> ELSE Field(Head(vals)) \o Encode(Tail(vals))
Tables == {Encode(vals) : vals \in UNION {[1..n -> OffsetValues] : n \in 0..MaxFields}}
\* The 66 bytes of 0, 100, 100, 250, 250, 400.
ExampleTable ==
  Encode(<<DigitsOf(0), DigitsOf(100), DigitsOf(100), DigitsOf(250), DigitsOf(250),
           DigitsOf(400)>>)
IdLists == UNION {[1..n -> 0..MaxIndex] : n \in 0..MaxIds}

\* Read that forgets the seek.
ReadFromStart(table, pos, n) == SubSeq(table, 1, Min(n, Len(table)))
\* ofp.seek(pos); ofp.read(n): at most n characters, fewer at the end of file.
Read(table, pos, n) == SubSeq(table, pos + 1, Min(pos + n, Len(table)))
\* A slice that forgets where it starts.
PySliceFromStart(s, lo, hi) ==
  SubSeq(s, 1, IF hi < 0 THEN Len(s) + hi ELSE Min(hi, Len(s)))
\* s[lo:hi] for lo >= 0; a negative hi counts from the end.
PySlice(s, lo, hi) ==
  SubSeq(s, lo + 1, IF hi < 0 THEN Len(s) + hi ELSE Min(hi, Len(s)))
\* str.strip() of the whitespace int() ignores.
RECURSIVE StripLeft(_)
StripLeft(text) ==
  IF text # <<>> /\ Head(text) = NL THEN StripLeft(Tail(text)) ELSE text
RECURSIVE StripRight(_)
StripRight(text) ==
  IF text # <<>> /\ text[Len(text)] = NL
  THEN StripRight(SubSeq(text, 1, Len(text) - 1)) ELSE text
\* int(text) raises ValueError unless text is digits within whitespace.
IsIntLiteral(text) ==
  LET t == StripRight(StripLeft(text))
  IN t # <<>> /\ \A k \in 1..Len(t) : t[k] # NL
RECURSIVE StripZeros(_)
StripZeros(ds) ==
  IF Len(ds) > 1 /\ Head(ds) = "0" THEN StripZeros(Tail(ds)) ELSE ds
\* int(text): the value, as its digits without leading zeros.
IntOf(text) == StripZeros(StripRight(StripLeft(text)))

\* get_offsets(offset_file, record_ids): the file is opened, results = [].
OffsetInit(table, ids) ==
  /\ otable = table
  /\ oids = ids
  /\ opos = 0
  /\ odata = <<>>
  /\ oresults = <<>>
  /\ opc = "loop"

\* One pass of "for record_id in record_ids" (the body of get_offset): seek,
\* read, raise on a short read, slice, convert, append.
OffsetLookup ==
  /\ opc = "loop"
  /\ Len(oresults) < Len(oids)
  /\ LET record_seq == oids[Len(oresults) + 1]
         pos == record_seq * OFFSET_SIZE_BYTES
         offset_data == Read(otable, pos, OFFSET_SIZE_BYTES * 2)
         offset_start == PySlice(offset_data, 0, OFFSET_SIZE_BYTES - 1)
         offset_end == PySlice(offset_data, OFFSET_SIZE_BYTES + 1, -1)
     IN /\ opos' = pos
        /\ odata' = offset_data
        /\ IF Len(offset_data) < OFFSET_SIZE_BYTES * 2
           THEN /\ opc' = "Exception"
                /\ UNCHANGED oresults
           ELSE IF IsIntLiteral(offset_start) /\ IsIntLiteral(offset_end)
           THEN /\ oresults' = Append(oresults, <<IntOf(offset_start), IntOf(offset_end)>>)
                /\ UNCHANGED opc
           ELSE /\ opc' = "ValueError"
                /\ UNCHANGED oresults
  /\ UNCHANGED <<otable, oids>>
  /\ UNCHANGED <<files, storeVars, concVars, coordVars, dynVars, shardVars, mergeVars, restVars>>

\* return results
OffsetReturn ==
  /\ opc = "loop"
  /\ Len(oresults) = Len(oids)
  /\ opc' = "returned"
  /\ UNCHANGED <<otable, oids, opos, odata, oresults>>
  /\ UNCHANGED <<files, storeVars, concVars, coordVars, dynVars, shardVars, mergeVars, restVars>>

\* ------------- SpecDecode: the ID decoder (misc/utils.py id_to_path_components,
\* id_to_data_file_path)

\* Largest number of dash-separated fields of a drawn ID.
MaxIdFields == 4

\* Strings are sequences of one-character strings.
S_en0003 == <<"e", "n", "0", "0", "0", "3">>
S_en == <<"e", "n">>
S_en0 == <<"e", "n", "0">>
S_18 == <<"1", "8">>
S_00042 == <<"0", "0", "0", "4", "2">>
S_00001 == <<"0", "0", "0", "0", "1">>
S_prefix == <<"c", "l", "u", "e", "w", "e", "b", "2", "2", "-">>
S_txt == <<"t", "x", "t">>
S_html == <<"h", "t", "m", "l">>
S_json_gz == <<"j", "s", "o", "n", ".", "g", "z">>
S_warc_gz == <<"w", "a", "r", "c", ".", "g", "z">>
S_gz == <<"g", "z">>
S_offset == <<"o", "f", "f", "s", "e", "t">>
\* The fields an ID is drawn from, the corpus roots and the kinds.
IdFields == {S_en0003, S_en, S_en0, S_18, S_00042}
IdFieldLists == UNION {[1..n -> IdFields] : n \in 1..MaxIdFields}
Roots == {<<"/", "d">>, <<"/", "g", "z">>, <<"/">> \o S_json_gz}
Kinds == {S_txt, S_html}

\* c.isdigit()
IsDigitChar(c) == c \in {DigitChars[k] : k \in 1..10}
\* s is digits only.
AllDigits(s) == \A k \in 1..Len(s) : IsDigitChar(s[k])
\* sep.join(fields)
RECURSIVE JoinWith(_, _)
JoinWith(fields, sep) ==
  IF fields = <<>> THEN <<>>
  ELSE IF Len(fields) = 1 THEN fields[1]
  ELSE fields[1] \o sep \o JoinWith(Tail(fields), sep)
\* The ID as it is written: the fields joined by dashes, behind the prefix or not.
IdString(prefix, fields) ==
  (IF prefix THEN S_prefix ELSE <<>>) \o JoinWith(fields, <<"-">>)

\* s.startswith(p)
StartsWith(s, p) == Len(s) >= Len(p) /\ SubSeq(s, 1, Len(p)) = p
\* s.split('-'): the fields between the dashes, empty ones included.
RECURSIVE SplitDash(_, _)
SplitDash(s, cur) ==
  IF s = <<>> THEN <<cur>>
  ELSE IF Head(s) = "-" THEN <<cur>> \o SplitDash(Tail(s), <<>>)
  ELSE SplitDash(Tail(s), Append(cur, Head(s)))
\* find_first_digit(s): the index of the first digit from 0, or -1.
RECURSIVE FindFirstDigit(_, _)
FindFirstDigit(s, i) ==
  IF i >= Len(s) THEN -1
  ELSE IF IsDigitChar(s[i + 1]) THEN i
  ELSE FindFirstDigit(s, i + 1)

\* id_to_path_components(id): the 4-tuple, or ValueError when id.split('-') does
\* not give three values to unpack.
IdToPathComponents(id) ==
  LET stripped == IF StartsWith(id, S_prefix) THEN SubSeq(id, 11, Len(id)) ELSE id
      parts == SplitDash(stripped, <<>>)
  IN IF Len(parts) # 3
     THEN [err |-> TRUE, lang |-> <<>>, stream_id |-> <<>>, subdir |-> <<>>,
           filename |-> <<>>]
     ELSE LET subdir == parts[1]
              file_seq == parts[2]
              digit_index == FindFirstDigit(subdir, 0)
          IN [err |-> FALSE,
              lang |-> PySlice(subdir, 0, digit_index),
              stream_id |-> PySlice(subdir, 0, digit_index + 2),
              subdir |-> subdir,
              filename |-> subdir \o <<"-">> \o file_seq]

\* os.path.join(path, b) for one more component.
PathJoin2(path, b) ==
  IF StartsWith(b, <<"/">>) THEN b
  ELSE IF path = <<>> \/ path[Len(path)] = "/" THEN path \o b
  ELSE path \o <<"/">> \o b
RECURSIVE PathJoin(_, _)
PathJoin(path, rest) ==
  IF rest = <<>> THEN path ELSE PathJoin(PathJoin2(path, Head(rest)), Tail(rest))
\* s.replace(old, new): every occurrence, from the left.
RECURSIVE Replace(_, _, _)
Replace(s, old, new) ==
  IF s = <<>> THEN <<>>
  ELSE IF StartsWith(s, old) THEN new \o Replace(SubSeq(s, Len(old) + 1, Len(s)), old, new)
  ELSE <<Head(s)>> \o Replace(Tail(s), old, new)

\* id_to_data_file_path(root, id, filetype): (path, offset_path), or the
\* ValueError of id_to_path_components.
IdToDataFilePath(root, id, filetype) ==
  LET c == IdToPathComponents(id)
      format == IF filetype = S_txt THEN S_json_gz ELSE S_warc_gz
      path == PathJoin(root, <<filetype, c.lang, c.stream_id, c.subdir,
                               c.filename \o <<".">> \o format>>)
      offset_path == Replace(path, IF filetype = S_txt THEN format ELSE S_gz, S_offset)
  IN [err |-> c.err, path |-> path, offset_path |-> offset_path]

\* The decoder is about to be called on an ID.
DecodeInit(prefix, fields, root, kind) ==
  /\ idprefix = prefix
  /\ idfields = fields
  /\ idroot = root
  /\ idkind = kind
  /\ idout = <<>>
  /\ idpc = "call"

\* One call of id_to_data_file_path.
Decode ==
  /\ idpc = "call"
  /\ LET r == IdToDataFilePath(idroot, IdString(idprefix, idfields), idkind)
     IN IF r.err
        THEN /\ idpc' = "ValueError"
             /\ UNCHANGED idout
        ELSE /\ idpc' = "returned"
             /\ idout' = <<r.path, r.offset_path>>
  /\ UNCHANGED <<idprefix, idfields, idroot, idkind>>
  /\ UNCHANGED <<files, storeVars, concVars, coordVars, dynVars, shardVars, mergeVars,
                 offsetVars, extractVars, auditVars>>

\* ------- SpecExtract: the extractor (data_extraction/clueweb_extract_data.py)

\* Largest number of record IDs in the records file.
MaxReq == 2
\* Largest size of the worker thread pool.
MaxPool == 2
\* Number of records of a container.
NumRecords == 43
\* Number of bytes of a record in a container.
RecordBytes == 2

S_19 == <<"1", "9">>
\* args.root and args.output_path
XRoot == <<"/", "d">>
XOut == <<"/", "o">>
\* The IDs the records file is drawn from: records 42 and 1 of container
\* en0003-18 with and without the prefix, and record 1 of container en0003-19.
XIds ==
  {IdString(p, <<S_en0003, S_18, r>>) : p \in BOOLEAN, r \in {S_00042, S_00001}}
    \cup {IdString(FALSE, <<S_en0003, S_19, S_00001>>)}
XIdLists == UNION {[1..n -> XIds] : n \in 1..MaxReq}
\* The container and offset files there may be under the root.
XPaths ==
  UNION {{IdToDataFilePath(XRoot, id, S_txt).path,
          IdToDataFilePath(XRoot, id, S_txt).offset_path} : id \in XIds}
\* Every container holds NumRecords records; each byte of record r is r.
XData == [k \in 1..(NumRecords * RecordBytes) |-> (k - 1) \div RecordBytes]
\* Its offset file: the NumRecords + 1 positions where a record starts or ends.
XTable == Encode([j \in 1..(NumRecords + 1) |-> DigitsOf(RecordBytes * (j - 1))])

\* int(text) of a string of digits, as a number.
RECURSIVE NatOf(_)
NatOf(ds) ==
  IF ds = <<>> THEN 0 ELSE 10 * NatOf(SubSeq(ds, 1, Len(ds) - 1))
                           + (CHOOSE d \in 0..9 : DigitChars[d + 1] = ds[Len(ds)])

\* get_offsets(offset_file, record_ids) on a file that exists: the results, or
\* the exception that ends it.
RECURSIVE GetOffsets(_, _)
GetOffsets(table, rids) ==
  IF rids = <<>> THEN [err |-> FALSE, results |-> <<>>]
  ELSE LET parts == SplitDash(Head(rids), <<>>)
       IN IF Len(parts) < 3 \/ ~IsIntLiteral(parts[3]) \/ ~AllDigits(parts[3])
          THEN [err |-> TRUE, results |-> <<>>]
          ELSE LET record_seq == NatOf(parts[3])
                   offset_data == Read(table, record_seq * OFFSET_SIZE_BYTES,
                                       OFFSET_SIZE_BYTES * 2)
                   offset_start == PySlice(offset_data, 0, OFFSET_SIZE_BYTES - 1)
                   offset_end == PySlice(offset_data, OFFSET_SIZE_BYTES + 1, -1)
                   rest == GetOffsets(table, Tail(rids))
               IN IF Len(offset_data) < OFFSET_SIZE_BYTES * 2
                     \/ ~IsIntLiteral(offset_start) \/ ~IsIntLiteral(offset_end)
                     \/ rest.err
                  THEN [err |-> TRUE, results |-> <<>>]
                  ELSE [err |-> FALSE,
                        results |-> <<<<IntOf(offset_start), IntOf(offset_end)>>>>
                                      \o rest.results]

\* fp.seek(start); fp.read(n): a negative n reads to the end of the file.
ReadBytes(data, start, n) ==
  SubSeq(data, start + 1, IF n < 0 THEN Len(data) ELSE Min(start + n, Len(data)))
\* extract_records(data_file_path, offsets)
ExtractRecords(data, offsets) ==
  [k \in 1..Len(offsets) |->
     ReadBytes(data, NatOf(offsets[k][1]), NatOf(offsets[k][2]) - NatOf(offsets[k][1]))]

\* s.split('/') without the empty parts: Path(s).parts behind the root.
RECURSIVE SplitSlash(_, _)
SplitSlash(s, cur) ==
  IF s = <<>> THEN (IF cur = <<>> THEN <<>> ELSE <<cur>>)
  ELSE IF Head(s) = "/"
       THEN (IF cur = <<>> THEN <<>> ELSE <<cur>>) \o SplitSlash(Tail(s), <<>>)
       ELSE SplitSlash(Tail(s), Append(cur, Head(s)))
\* os.path.join(self.output_path, lang_code, stream_id, subdir, filename) with
\* the last four parts of data_path.
OutputFile(data_path) ==
  LET parts == SplitSlash(data_path, <<>>)
  IN PathJoin(PathJoin2(XOut, S_txt), SubSeq(parts, Len(parts) - 3, Len(parts)))

RECURSIVE Concat(_)
Concat(chunks) == IF chunks = <<>> THEN <<>> ELSE Head(chunks) \o Concat(Tail(chunks))

\* files_to_access, in insertion order: one entry per data path with the IDs
\* that map to it, or the exception of the decoder.
RECURSIVE FilesToAccess(_, _)
FilesToAccess(rids, acc) ==
  IF rids = <<>> THEN [err |-> FALSE, entries |-> acc]
  ELSE LET record_id == Head(rids)
           d == IdToDataFilePath(XRoot, record_id, S_txt)
           at == {k \in 1..Len(acc) : acc[k].path = d.path}
       IN IF d.err THEN [err |-> TRUE, entries |-> acc]
          ELSE IF at = {}
          THEN FilesToAccess(Tail(rids),
                 Append(acc, [path |-> d.path, offset_path |-> d.offset_path,
                              ids |-> <<record_id>>]))
          ELSE FilesToAccess(Tail(rids),
                 [k \in 1..Len(acc) |->
                    IF k \in at THEN [acc[k] EXCEPT !.ids = Append(@, record_id)]
                    ELSE acc[k]])

\* The tasks of the pool that have ended.
Ended(tasks) == {k \in 1..Len(tasks) : tasks[k] \in {"done", "failed"}}
\* pool.shutdown(wait=True) returns at once.
ShutdownReturnsAtOnce(tasks) == TRUE
\* pool.shutdown(wait=True) at the end of the with block: every submitted task
\* has ended.
ShutdownWaits(tasks) == Ended(tasks) = 1..Len(tasks)

\* ClueWebDataExtractor(...): the record IDs are read from the records file.
ExtractInit(ids, fs, workers) ==
  /\ record_ids = ids
  /\ xfs = fs
  /\ xworkers = workers
  /\ files_to_access = <<>>
  /\ xtask = <<>>
  /\ xdata = <<>>
  /\ xseen = {}
  /\ xout = <<>>
  /\ xpc = "start"

\* run(): the output directory is made and the IDs are grouped by data file.
RunGroup ==
  /\ xpc = "start"
  /\ LET g == FilesToAccess(record_ids, <<>>)
     IN IF g.err
        THEN /\ xpc' = "raised"
             /\ UNCHANGED <<files_to_access, xtask, xdata>>
        ELSE /\ xpc' = "submit"
             /\ files_to_access' = g.entries
             /\ xtask' = [k \in 1..Len(g.entries) |-> "none"]
             /\ xdata' = [k \in 1..Len(g.entries) |-> <<>>]
  /\ UNCHANGED <<record_ids, xfs, xworkers, xseen, xout>>
  /\ UNCHANGED <<files, storeVars, concVars, coordVars, dynVars, shardVars, mergeVars,
                 offsetVars, decodeVars, auditVars>>

\* run(): every entry of files_to_access is submitted to the pool.
RunSubmit ==
  /\ xpc = "submit"
  /\ xtask' = [k \in 1..Len(xtask) |-> "queued"]
  /\ xpc' = "collect"
  /\ UNCHANGED <<record_ids, xfs, xworkers, files_to_access, xdata, xseen, xout>>
  /\ UNCHANGED <<files, storeVars, concVars, coordVars, dynVars, shardVars, mergeVars,
                 offsetVars, decodeVars, auditVars>>

\* A free thread of the pool takes a queued task: extract_data reads the
\* offsets and the records. A missing file, a short offset table or an I/O
\* error ends the task with an exception.
TaskFetch(k, ioerror) ==
  /\ xtask[k] = "queued"
  /\ Cardinality({j \in 1..Len(xtask) : xtask[j] = "fetched"}) < xworkers
  /\ LET e == files_to_access[k]
         o == GetOffsets(XTable, e.ids)
     IN IF ioerror \/ e.offset_path \notin xfs \/ o.err \/ e.path \notin xfs
        THEN /\ xtask' = [xtask EXCEPT ![k] = "failed"]
             /\ UNCHANGED xdata
        ELSE /\ xtask' = [xtask EXCEPT ![k] = "fetched"]
             /\ xdata' = [xdata EXCEPT ![k] = ExtractRecords(XData, o.results)]
  /\ UNCHANGED <<record_ids, xfs, xworkers, files_to_access, xseen, xout, xpc>>
  /\ UNCHANGED <<files, storeVars, concVars, coordVars, dynVars, shardVars, mergeVars,
                 offsetVars, decodeVars, auditVars>>

\* extract_data: the output file is opened with 'wb' and the records are
\* written in the order of record_ids; an I/O error leaves the file as opened.
TaskWrite(k, ioerror) ==
  /\ xtask[k] = "fetched"
  /\ LET name == OutputFile(files_to_access[k].path)
     IN IF ioerror
        THEN /\ xtask' = [xtask EXCEPT ![k] = "failed"]
             /\ xout' = (name :> <<>>) @@ xout
        ELSE /\ xtask' = [xtask EXCEPT ![k] = "done"]
             /\ xout' = (name :> Concat(xdata[k])) @@ xout
  /\ UNCHANGED <<record_ids, xfs, xworkers, files_to_access, xdata, xseen, xpc>>
  /\ UNCHANGED <<files, storeVars, concVars, coordVars, dynVars, shardVars, mergeVars,
                 offsetVars, decodeVars, auditVars>>

\* run(): as_completed yields a future that has ended; future.result() returns
\* the counts or raises the exception of the task, which leaves the loop.
RunCollect(k) ==
  /\ xpc = "collect"
  /\ k \in Ended(xtask) \ xseen
  /\ xseen' = xseen \cup {k}
  /\ xpc' = IF xtask[k] = "failed" THEN "raising" ELSE "collect"
  /\ UNCHANGED <<record_ids, xfs, xworkers, files_to_access, xtask, xdata, xout>>
  /\ UNCHANGED <<files, storeVars, concVars, coordVars, dynVars, shardVars, mergeVars,
                 offsetVars, decodeVars, auditVars>>

\* run(): the with block is left, after the last future or with the exception.
RunShutdown ==
  /\ \/ xpc = "raising"
     \/ xpc = "collect" /\ xseen = 1..Len(xtask)
  /\ ShutdownWaits(xtask)
  /\ xpc' = IF xpc = "raising" THEN "raised" ELSE "returned"
  /\ UNCHANGED <<record_ids, xfs, xworkers, files_to_access, xtask, xdata, xseen, xout>>
  /\ UNCHANGED <<files, storeVars, concVars, coordVars, dynVars, shardVars, mergeVars,
                 offsetVars, decodeVars, auditVars>>

\* ----------------------- SpecGenerate: ClueWebFileDatabase.generate

\* Largest number of containers under <root>/txt.
MaxContainers == 4
\* The file keys ("en0046-86" of en0046-86.json.gz), in their sort order.  In
\* the corpus layout a container's key fixes its directory, so no two containers
\* share a key.
FileKeySet == 1..MaxContainers
Perms(S) ==
  {w \in [1..Cardinality(S) -> S] : \A i, j \in DOMAIN w : i # j => w[i] # w[j]}
\* The orders in which os.walk can yield the containers of a corpus.
Walks == UNION {Perms(S) : S \in SUBSET FileKeySet}

\* A file at output_filename, and none.
NoFile == [exists |-> FALSE, rows |-> <<>>]
ExistingFiles ==
  {[exists |-> TRUE, rows |-> <<>>],
   [exists |-> TRUE, rows |-> <<[path |-> PathOf(1), records |-> RecordsOf(1),
                                 state |-> DONE, job |-> "A"]>>]}

\* The keys as the walk left them.
KeysUnsorted(walk) == walk
\* sorted_data_file_keys = list(data_files.keys()); sorted_data_file_keys.sort()
SortedDataFileKeys(walk) == OrderByIdAsc(SeqRange(walk))

\* INSERT INTO files VALUES (NULL, path, records, NOT_STARTED, NULL, NULL, NULL)
\* for each key in turn: the row's id is its place in the sequence.
InsertRows(keys) ==
  [i \in 1..Len(keys) |->
     [path |-> PathOf(keys[i]), records |-> RecordsOf(keys[i]),
      state |-> NOT_STARTED, job |-> NULL]]

GenInit(walk, file) ==
  /\ gwalk = walk
  /\ gfile = file
  /\ gpc = "call"

\* generate(clueweb_root, output_filename)
Generate ==
  /\ gpc = "call"
  /\ IF gfile.exists
     THEN /\ gpc' = "Exception"
          /\ UNCHANGED gfile
     ELSE /\ gfile' = [exists |-> TRUE, rows |-> InsertRows(SortedDataFileKeys(gwalk))]
          /\ gpc' = "returned"
  /\ UNCHANGED <<files, storeVars, concVars, coordVars, dynVars, shardVars, mergeVars,
                 offsetVars, decodeVars, extractVars, counterVars, gwalk>>

\* --------------------------------- SpecCounter: clueweb_counter.py

\* Largest number of rows of a shard and largest cached count.
MaxShardRows == 3
\* The bytes of a shard of k rows as csv.writer leaves them.
RECURSIVE ShardBytes(_)
ShardBytes(k) == IF k = 0 THEN <<>> ELSE <<"x", NL>> \o ShardBytes(k - 1)

\* The results folders: some jobs have a shard <job_id>.csv.
ShardDirs ==
  UNION {[S -> {ShardBytes(k) : k \in 0..MaxShardRows}] : S \in SUBSET Jobs}
\* The counts databases an earlier run can have left.
CountTables == UNION {[S -> 0..MaxShardRows] : S \in SUBSET Jobs}
\* The file-state stores: each row unleased, or DONE under one of the jobs.
JobColumns == [Ids -> Jobs \cup {NULL}]
StoreWithJobs(col) ==
  [id \in Ids |-> [path |-> PathOf(id), records |-> RecordsOf(id),
                   state |-> IF col[id] = NULL THEN NOT_STARTED ELSE DONE,
                   job |-> col[id]]]

\* SELECT SUM(records) FROM files WHERE job = ?: no row, no sum (None).
RECURSIVE SumOver(_, _)
SumOver(f, S) ==
  IF S = {} THEN 0
  ELSE LET id == CHOOSE x \in S : TRUE IN f[id].records + SumOver(f, S \ {id})
GetRecordCountForJob(f, job) ==
  LET rows == {id \in DOMAIN f : f[id].job = job}
  IN [isNone |-> rows = {}, value |-> SumOver(f, rows)]

\* lines += buf.count(b'\n')
RECURSIVE NewlineCount(_)
NewlineCount(bytes) ==
  IF bytes = <<>> THEN 0
  ELSE (IF Head(bytes) = NL THEN 1 ELSE 0) + NewlineCount(Tail(bytes))

\* count_lines that never looks at already_counted.
CountLinesAlwaysReads(cached, dir, job) ==
  [lines |-> NewlineCount(dir[job]), read |-> TRUE]
\* count_lines(filename): the cached count, or the newlines of the file.
CountLines(cached, dir, job) ==
  IF job \in DOMAIN cached
  THEN [lines |-> cached[job], read |-> FALSE]
  ELSE [lines |-> NewlineCount(dir[job]), read |-> TRUE]

\* The if/else at the end of run()'s loop.
LogLine(db_count, file_count) ==
  IF file_count > 0
  THEN IF ~db_count.isNone /\ db_count.value = file_count THEN "info" ELSE "warning"
  ELSE "info-skip"

CounterInit(dir, cached) ==
  /\ shards = dir
  /\ already_counted = cached
  /\ counts = cached
  /\ csv_files = DOMAIN dir
  /\ clog = <<>>
  /\ creads = {}

\* One iteration of run()'s loop over csv_files.items().
CounterCheck(job_name) ==
  /\ job_name \in csv_files
  /\ LET db_count == GetRecordCountForJob(files, job_name)
         c == CountLines(already_counted, shards, job_name)
     IN /\ creads' = IF c.read THEN creads \cup {job_name} ELSE creads
        /\ counts' = IF c.read THEN (job_name :> c.lines) @@ counts ELSE counts
        /\ clog' = (job_name :> LogLine(db_count, c.lines)) @@ clog
  /\ csv_files' = csv_files \ {job_name}
  /\ UNCHANGED <<files, storeVars, concVars, coordVars, dynVars, shardVars, mergeVars,
                 offsetVars, decodeVars, extractVars, genVars, shards, already_counted>>

\* The scanning pipeline after construction.
ScanInit ==
  /\ files = InitFiles
  /\ StoreInit
  /\ ConcInit
  /\ CoordInit
  /\ DynInit
  /\ ShardInit

\* The tools that are not run: no ID to decode.
DecodeIdle == DecodeInit(FALSE, <<>>, <<>>, S_txt)
ExtractIdle == ExtractInit(<<>>, {}, 1)
GenIdle == GenInit(<<>>, NoFile)
CounterIdle == CounterInit(<<>>, <<>>)
AuditIdle ==
  /\ GenIdle
  /\ CounterIdle
RestIdle ==
  /\ DecodeIdle
  /\ ExtractIdle
  /\ AuditIdle

\* The merger over an empty directory and a lookup of no record: the tools are
\* not run beside the pipeline.
Init ==
  /\ ScanInit
  /\ MergeInit(<<>>)
  /\ OffsetInit(<<>>, <<>>)
  /\ RestIdle

\* The merger is run on a directory of sorted files.
InitMerge ==
  /\ ScanInit
  /\ \E dir \in Directories \cup {ExampleDir} : MergeInit(dir)
  /\ OffsetInit(<<>>, <<>>)
  /\ RestIdle

\* The lookup is called on an offset file with a list of records.
InitOffsets ==
  /\ ScanInit
  /\ MergeInit(<<>>)
  /\ \E table \in Tables \cup {ExampleTable}, ids \in IdLists : OffsetInit(table, ids)
  /\ RestIdle

\* The decoder is called on an ID, a corpus root and a kind.
InitDecode ==
  /\ ScanInit
  /\ MergeInit(<<>>)
  /\ OffsetInit(<<>>, <<>>)
  /\ \E prefix \in BOOLEAN, fields \in IdFieldLists, root \in Roots, kind \in Kinds :
       DecodeInit(prefix, fields, root, kind)
  /\ ExtractIdle
  /\ AuditIdle

\* The extractor is run on a records file, a corpus and a pool size.
InitExtract ==
  /\ ScanInit
  /\ MergeInit(<<>>)
  /\ OffsetInit(<<>>, <<>>)
  /\ DecodeIdle
  /\ \E ids \in XIdLists, fs \in SUBSET XPaths, workers \in 1..MaxPool :
       ExtractInit(ids, fs, workers)
  /\ AuditIdle

\* generate is called on a corpus and an output file name.
InitGenerate ==
  /\ ScanInit
  /\ MergeInit(<<>>)
  /\ OffsetInit(<<>>, <<>>)
  /\ DecodeIdle
  /\ ExtractIdle
  /\ \E walk \in Walks, file \in ExistingFiles \cup {NoFile} : GenInit(walk, file)
  /\ CounterIdle

\* The counter is run on a store, a results folder and a counts database.
InitCounter ==
  /\ \E col \in JobColumns : files = StoreWithJobs(col)
  /\ StoreInit
  /\ ConcInit
  /\ CoordInit
  /\ DynInit
  /\ ShardInit
  /\ MergeInit(<<>>)
  /\ OffsetInit(<<>>, <<>>)
  /\ DecodeIdle
  /\ ExtractIdle
  /\ GenIdle
  /\ \E dir \in ShardDirs, cached \in CountTables : CounterInit(dir, cached)

NextStore ==
  \/ \E job \in Jobs, n \in Counts : StoreGetNextBatch(job, n)
  \/ \E job \in Jobs : StoreClearBatch(job)
  \/ \E job \in Jobs : StoreCompleteBatch(job)
  \/ \E paths \in PathLists : StoreCompleteBatchFiles(paths)

SpecStore == Init /\ [][NextStore]_vars

NextConc ==
  \/ \E c \in Conns, n \in ConcCounts : ConcCall(c, n)
  \/ \E c \in Conns : ConcBegin(c)
  \/ \E c \in Conns : ConcSelect(c)
  \/ \E c \in Conns : ConcUpdate(c)
  \/ \E c \in Conns : ConcCommit(c)
  \/ \E c \in Conns : ConcCommitWait(c)
  \/ \E c \in Conns : ConcCommitBusy(c)

SpecConc == Init /\ [][NextConc]_vars

\* The two connections make write calls as well.
NextConcWrites ==
  \/ NextConc
  \/ \E c \in Conns, op \in WriteOpNames \ {"complete_batch_files"} :
       ConcWriteCall(c, op, <<>>)
  \/ \E c \in Conns, paths \in PathLists : ConcWriteCall(c, "complete_batch_files", paths)
  \/ \E c \in Conns : ConcWriteUpdate(c)
  \/ \E c \in Conns : ConcWriteCommit(c)
  \/ \E c \in Conns : ConcWriteCommitWait(c)
  \/ \E c \in Conns : ConcWriteCommitBusy(c)

SpecConcWrites == Init /\ [][NextConcWrites]_vars

NextCoord ==
  \/ \E m \in jobsQ : CoordJobs(m)
  \/ \E m \in ctrlQ : CoordCtrl(m)
  \/ \E r \in Runs, job \in Jobs, n \in RunCounts : RunStart(r, job, n)
  \/ \E r \in Runs, bad \in SUBSET {PathOf(id) : id \in Ids}, procs \in Procs :
       RunScan(r, bad, procs)
  \/ \E r \in Runs : RunRecvAck(r)
  \/ \E r \in Runs : RunCrash(r)
  \/ \E m \in CtrlMsgs : CtrlSend(m)

SpecCoord == Init /\ [][NextCoord]_vars

\* Clients of either socket may also send messages of unknown type.
NextUnknown ==
  \/ \E m \in jobsQ : CoordJobs(m)
  \/ \E m \in ctrlQ : CoordCtrl(m)
  \/ \E r \in Runs, job \in Jobs, n \in RunCounts : RunStart(r, job, n)
  \/ \E r \in Runs, procs \in Procs : RunScan(r, {}, procs)
  \/ \E r \in Runs : RunRecvAck(r)
  \/ \E r \in Runs : JobsSendUnknown(r)
  \/ \E m \in CtrlMsgs \cup {UnknownMsg("ctrl", k) : k \in CtrlClients} : CtrlSend(m)

SpecUnknown == Init /\ [][NextUnknown]_vars

NextRestart ==
  \/ \E m \in jobsQ : CoordJobs(m)
  \/ \E m \in ctrlQ : CoordCtrl(m)
  \/ \E r \in Runs, job \in Jobs, n \in RunCounts : RunStart(r, job, n)
  \/ \E r \in Runs, bad \in SUBSET {PathOf(id) : id \in Ids}, procs \in Procs,
        owner \in OwnerLists : RestartScan(r, bad, procs, owner)
  \/ \E r \in Runs : RunRecvAck(r)
  \/ \E k \in CtrlClients, job \in Jobs, sh \in PayloadShapes : RestartReset(k, job, sh)

SpecRestart == Init /\ [][NextRestart]_vars

\* The coordinator's loop always runs, every failed job is eventually reset,
\* workers keep being started, and a run that has its batch scans it and
\* reports.
FairSpecRestart ==
  /\ SpecRestart
  /\ WF_vars(\E m \in jobsQ : CoordJobs(m))
  /\ SF_vars(\E m \in ctrlQ : CoordCtrl(m))
  /\ WF_vars(\E r \in Runs, job \in Jobs, n \in RunCounts : RunStart(r, job, n))
  /\ WF_vars(\E r \in Runs, procs \in Procs, owner \in OwnerLists :
               RestartScan(r, {}, procs, owner))
  /\ WF_vars(\E r \in Runs : RunRecvAck(r))
  /\ WF_vars(\E k \in CtrlClients, job \in Jobs, sh \in PayloadShapes :
               RestartReset(k, job, sh))

NextPipeline ==
  \/ \E m \in jobsQ : CoordJobs(m)
  \/ \E m \in ctrlQ : CoordCtrl(m)
  \/ \E r \in Runs, job \in Jobs, n \in RunCounts : PipeRunStart(r, job, n)
  \/ \E r \in Runs, bad \in SUBSET {PathOf(id) : id \in Ids}, procs \in Procs,
        owner \in OwnerLists : RunScanShards(r, bad, procs, owner)
  \/ \E r \in Runs : RunRecvAck(r)
  \/ \E m \in CtrlMsgs : CtrlSend(m)

SpecPipeline == Init /\ [][NextPipeline]_vars

NextDyn ==
  \/ \E type \in {"RESUME", "PAUSE"}, i \in WorkerArgs : DynCtrlSend(type, i)
  \/ DynCtrlRecvAck
  \/ DynHandleCtrl
  \/ \E i \in Workers : DynHandlePipe(i)
  \/ \E i \in Workers : WorkerStart(i)
  \/ DynRestart
  \/ \E i \in Workers : WorkerRecv(i)
  \/ \E i \in Workers, ok \in BOOLEAN : WorkerScanned(i, ok)

SpecDyn == Init /\ [][NextDyn]_vars

\* One run of the dynamic supervisor in which every scan succeeds.
NextDynOk ==
  \/ \E type \in {"RESUME", "PAUSE"}, i \in WorkerArgs : DynCtrlSend(type, i)
  \/ DynCtrlRecvAck
  \/ DynHandleCtrl
  \/ \E i \in Workers : DynHandlePipe(i)
  \/ \E i \in Workers : WorkerStart(i)
  \/ \E i \in Workers : WorkerRecv(i)
  \/ \E i \in Workers : WorkerScanned(i, TRUE)

SpecDynOk == Init /\ [][NextDynOk]_vars

\* The supervisor's loop keeps polling the control socket and the pipes, and
\* every worker process runs; the operator need not send anything.
FairSpecDynOk ==
  /\ SpecDynOk
  /\ WF_vars(DynHandleCtrl)
  /\ \A i \in Workers :
       /\ WF_vars(DynHandlePipe(i))
       /\ WF_vars(WorkerStart(i))
       /\ WF_vars(WorkerRecv(i))
       /\ WF_vars(WorkerScanned(i, TRUE))

NextShard ==
  \/ \E job \in Jobs, batch \in Batches, procs \in Procs :
       ShardRunStart(job, batch, procs)
  \/ \E w \in ProcIds : ProcOpen(w)
  \/ \E w \in ProcIds : ProcAsk(w)
  \/ \E w \in ProcIds, ok \in BOOLEAN : ProcScanned(w, ok)
  \/ ShardRunEnd

SpecShard == Init /\ [][NextShard]_vars

NextMerge ==
  \/ \E f \in mfill : MergeFill(f)
  \/ MergeStep
  \/ MergeClose

SpecMerge == InitMerge /\ [][NextMerge]_vars

NextOffsets ==
  \/ OffsetLookup
  \/ OffsetReturn

SpecOffsets == InitOffsets /\ [][NextOffsets]_vars

NextDecode == Decode

NextExtract ==
  \/ RunGroup
  \/ RunSubmit
  \/ \E k \in 1..Len(xtask), ioerror \in BOOLEAN : TaskFetch(k, ioerror)
  \/ \E k \in 1..Len(xtask), ioerror \in BOOLEAN : TaskWrite(k, ioerror)
  \/ \E k \in 1..Len(xtask) : RunCollect(k)
  \/ RunShutdown

SpecExtract == InitExtract /\ [][NextExtract]_vars

NextGenerate == Generate

SpecGenerate == InitGenerate /\ [][NextGenerate]_vars

NextCounter == \E job_name \in Jobs : CounterCheck(job_name)

SpecCounter == InitCounter /\ [][NextCounter]_vars

SpecDecode == InitDecode /\ [][NextDecode]_vars

\* A node runs the static scanner or the dynamic supervisor, not both.
DynIdle == nctl = 0 /\ druns = 0 /\ \A i \in Workers : wpc[i] = "start"
ShardIdle == sruns = 0

NextScanners ==
  \/ ShardIdle /\ NextDyn
  \/ DynIdle /\ NextShard

SpecScanners == Init /\ [][NextScanners]_vars

\* The coordinator's loop always runs, and a control message that keeps finding
\* the jobs socket empty at the poll is taken; the scanners and the operator
\* need not act.
FairSpecCoord ==
  /\ SpecCoord
  /\ WF_vars(\E m \in jobsQ : CoordJobs(m))
  /\ SF_vars(\E m \in ctrlQ : CoordCtrl(m))

\* ------------------------------------------------------ claims on the store

NotStartedIds(f) == {id \in DOMAIN f : f[id].state = NOT_STARTED}

\* What C2 says a get_next_batch(job, n) step from table f to table g returning
\* (ids, paths) must satisfy.
LeasesLowest(f, g, job, n, ids, paths) ==
  LET NS == NotStartedIds(f)
      leased == SeqRange(ids)
  IN /\ Len(ids) = Min(n, Cardinality(NS))
     /\ leased \subseteq NS
     /\ \A x \in leased, y \in NS \ leased : x < y
     /\ \A i, j \in 1..Len(ids) : i < j => ids[i] < ids[j]
     /\ Len(paths) = Len(ids)
     /\ \A i \in 1..Len(ids) : paths[i] = f[ids[i]].path
     /\ \A id \in leased : g[id] = [f[id] EXCEPT !.state = IN_PROGRESS, !.job = job]
     /\ \A id \in DOMAIN f \ leased : g[id] = f[id]
     /\ (NS = {} => ids = <<>> /\ paths = <<>>)

\* C2: for every store state and every n >= 0, get_next_batch(job, n) called
\* alone returns exactly the min(n, k) lowest-id NOT_STARTED rows in ascending id
\* order, sets exactly those rows to IN_PROGRESS with job = job_id, leaves every
\* other row unchanged, and returns empty lists when no row is NOT_STARTED.
C2_GetNextBatchExact ==
  [][\A job \in Jobs, n \in Counts :
       (n >= 0 /\ StoreGetNextBatch(job, n)) =>
         LeasesLowest(files, files', job, n, lastCall'.ids, lastCall'.paths)]_vars

\* C2 witness: a call asked for more rows than were NOT_STARTED and got the one
\* that was left, which is not row 1 and is now leased to the caller.
C2_Witness ==
  /\ lastCall.op = "get_next_batch"
  /\ lastCall.n = 2
  /\ Len(lastCall.ids) = 1
  /\ lastCall.ids[1] > 1
  /\ files[lastCall.ids[1]].state = IN_PROGRESS
  /\ files[lastCall.ids[1]].job = lastCall.job

LegalTransitions ==
  {<<NOT_STARTED, IN_PROGRESS>>, <<IN_PROGRESS, DONE>>, <<IN_PROGRESS, NOT_STARTED>>}

\* C3: under any sequence of get_next_batch, complete_batch, complete_batch_files
\* and clear_batch calls a row's state changes only along NOT_STARTED ->
\* IN_PROGRESS, IN_PROGRESS -> DONE or IN_PROGRESS -> NOT_STARTED.
C3_OnlyLegalTransitions ==
  [][\A id \in Ids :
       files'[id].state # files[id].state =>
         <<files[id].state, files'[id].state>> \in LegalTransitions]_vars


\* ------------------------------------------- claims on concurrent callers

\* C1: when two callers run get_next_batch concurrently, each on its own
\* connection, the id sets returned to them never overlap, and every returned
\* row ends up IN_PROGRESS with job equal to the caller it was returned to.
C1_ConcurrentLeasesExclusive ==
  /\ got[1] \cap got[2] = {}
  /\ \A c \in Conns :
       cpc[c] = "idle" =>
         \A id \in got[c] :
           files[id].state = IN_PROGRESS /\ files[id].job = ConnJob(c)


\* ------------------------------- claims on the coordinator and static runs

\* C4: a row is DONE only if that file was scanned to completion without error
\* by a worker, under any sequence of NEWJOB / FINISHED / RESET_JOB messages and
\* worker failures, the same job id being used by more than one run included.
C4_DoneOnlyIfScanned ==
  \A id \in Ids : files[id].state = DONE => files[id].path \in scannedOK

Pending(q, who) == \E m \in q : m.from = who

\* C5: every request gets exactly one ACK on the socket it arrived on: a
\* requester that is waiting has its request still queued or its ACK delivered,
\* and the coordinator never sends on a socket with no pending request.
C5_EveryRequestAcked ==
  /\ coord # "ZMQError"
  /\ \A k \in CtrlClients :
       kpc[k] = "waiting" => Pending(ctrlQ, k) \/ ctrlReply[k].type = "ACK"
  /\ \A r \in Runs :
       rpc[r] \in {"wait_files", "wait_ack"} =>
         Pending(jobsQ, r) \/ jobsReply[r].type = "ACK"

\* C6: RESET_JOB(j) handled by the coordinator sets state = NOT_STARTED and
\* clears job for every row whose job = j and leaves every other row unchanged.
C6_ResetJobClearsBatch ==
  [][\A m \in ctrlQ :
       (m.type = "RESET_JOB" /\ CoordCtrl(m)) =>
         \A id \in Ids :
           files'[id] = IF files[id].job = m.job
                        THEN [files[id] EXCEPT !.state = NOT_STARTED, !.job = EMPTY]
                        ELSE files[id]]_vars

\* The step handles a message that releases the lease of row id.
ReleasesLease(id) ==
  \/ \E m \in jobsQ :
       m.type = "FINISHED" /\ m.ok /\ m.job = files[id].job /\ CoordJobs(m)
  \/ \E m \in ctrlQ :
       m.type = "RESET_JOB" /\ m.job = files[id].job /\ CoordCtrl(m)

\* C7: on FINISHED(job, n, ok) the coordinator sets to DONE every row whose job
\* is job when ok is true and changes no row when ok is false; an IN_PROGRESS
\* row changes in no other step than a FINISHED(ok) or a RESET_JOB for its job,
\* so a run that never sends FINISHED leaves its rows IN_PROGRESS.
C7_FinishedEffect ==
  /\ [][\A m \in jobsQ :
          (m.type = "FINISHED" /\ CoordJobs(m)) =>
            IF m.ok
            THEN \A id \in Ids :
                   files'[id] = IF files[id].job = m.job
                                THEN [files[id] EXCEPT !.state = DONE]
                                ELSE files[id]
            ELSE files' = files]_vars
  /\ [][\A id \in Ids :
          (files[id].state = IN_PROGRESS /\ files'[id] # files[id]) =>
            ReleasesLease(id)]_vars

RowsOf(job) == {id \in Ids : files[id].job = job}

\* C7 witness: both runs have had their FINISHED answered; the one that
\* reported success has its rows DONE, the one that reported a failure still
\* has its rows IN_PROGRESS under its job.
C7_Witness ==
  \E r, q \in Runs :
    /\ rpc[r] = "wait_ack" /\ jobsReply[r].type = "ACK" /\ rok[r]
    /\ rpc[q] = "wait_ack" /\ jobsReply[q].type = "ACK" /\ ~rok[q]
    /\ rjob[r] # rjob[q]
    /\ RowsOf(rjob[r]) # {} /\ \A id \in RowsOf(rjob[r]) : files[id].state = DONE
    /\ RowsOf(rjob[q]) # {}
    /\ \A id \in RowsOf(rjob[q]) : files[id].state = IN_PROGRESS

\* C8: EXIT received on the control socket sets the terminate flag, is answered
\* with ACK to the sender, ends the loop cleanly and changes no row.
C8_ExitTerminatesCleanly ==
  [][\A m \in ctrlQ :
       (m.type = "EXIT" /\ CoordCtrl(m)) =>
         /\ done'
         /\ coord' = "exited"
         /\ ctrlReply'[m.from].type = "ACK"
         /\ files' = files]_vars

\* C9: a control message waiting on the control socket is eventually taken by
\* the coordinator, even while job messages keep arriving on the jobs socket.
C9_ControlNotStarved ==
  (ctrlQ # {} /\ coord = "running") ~> (ctrlQ = {} \/ coord # "running")


\* ----------------------------------------- claims on the dynamic supervisor

\* Files assigned to worker i and not yet answered by a FILE_SCANNED.
Outstanding(i) ==
  Cardinality({k \in 1..Len(toWorker[i]) : toWorker[i][k].type = "NEW_FILE"})
    + (IF wpc[i] = "scan" THEN 1 ELSE 0)

\* C10: under any sequence of RESUME(i) / PAUSE(i) control messages and worker
\* FILE_SCANNED reports, RESUME(i) to an already active worker included, each
\* worker has at most one file outstanding at any moment.
C10_OneOutstandingPerWorker ==
  \A i \in Workers : Outstanding(i) <= 1


\* The step puts a NEW_FILE message on the pipe of worker i.
Dispatched(i) ==
  /\ Len(toWorker'[i]) = Len(toWorker[i]) + 1
  /\ toWorker'[i][Len(toWorker'[i])].type = "NEW_FILE"

\* C11: the supervisor leases a file and dispatches it to worker i only at a
\* moment when workers_active[i] is true, so no file reaches a worker before
\* that worker's first RESUME.
C11_DispatchOnlyToActive ==
  [][\A i \in Workers : Dispatched(i) => workers_active'[i]]_vars

\* Worker i has been resumed (a row is leased under its id) and then paused.
PausedAfterResume(i) ==
  ~workers_active[i] /\ \E id \in Ids : files[id].job = DbId(i)

\* C12: after PAUSE(i) is processed, the next FILE_SCANNED from worker i is
\* answered with PAUSE, and no file is dispatched to worker i except by the
\* handling of a later RESUME(i).
C12_PausedWorkerGetsNoFile ==
  [][\A i \in Workers :
       PausedAfterResume(i) =>
         /\ (DynHandlePipe(i) /\ Head(toParent[i]).type = "FILE_SCANNED") =>
              toWorker'[i] = Append(toWorker[i], ToWorkerMsg("PAUSE", NoPath))
         /\ Dispatched(i) => (DynHandleCtrl /\ zreq = CtrlReq("RESUME", i))]_vars


\* ------------------------------------------------ claims on failing scans

\* Static mode: a process whose scan raises stops taking files and reports
\* False, which makes the job's FINISHED carry ok = false.
StaticFailureAborts ==
  \A batch \in Batches, bad \in SUBSET {PathOf(id) : id \in Ids}, procs \in Procs :
    bad \subseteq SeqRange(batch) =>
      LET res == StaticScan(batch, bad, procs)
      IN /\ res.ok = (bad = {})
         /\ res.scanned \cap bad = {}
         /\ bad = {} => res.scanned = SeqRange(batch)
         /\ \A k \in 1..Len(batch) :
              batch[k] \in res.scanned => BadUpTo(batch, bad, k) < procs

\* The reply on the pipe of worker i is one more message of the three kinds.
Served(i) ==
  /\ Len(toWorker'[i]) = Len(toWorker[i]) + 1
  /\ toWorker'[i][Len(toWorker'[i])].type \in {"NEW_FILE", "PAUSE", "NOFILES"}
  /\ \A k \in 1..Len(toWorker[i]) : toWorker'[i][k] = toWorker[i][k]

C14_ExistingShardAborts ==
  [][\A w \in ProcIds :
       (ProcOpen(w) /\ sdir[ShardName(sjob, w)].exists) =>
         /\ sdir'[ShardName(sjob, w)] = sdir[ShardName(sjob, w)]
         /\ sproc'[w] = "exited"]_vars


SortedRows(rows) == \A k \in 1..(Len(rows) - 1) : rows[k] <= rows[k + 1]

\* C15: every shard written by one static process or by one dynamic worker has
\* a non-decreasing sequence of first fields, across the boundary between two
\* files handled by the same worker included.
C15_ShardsSorted ==
  /\ \A name \in ShardNames : SortedRows(sdir[name].rows)
  /\ \A i \in Workers : SortedRows(dshard[i].rows)

\* C15 witness: after three control messages or more an active dynamic worker
\* has the rows of two files in its shard.
C15_Witness ==
  \E i \in Workers :
    /\ Len(dshard[i].rows) = 2 * Len(FileKeys(PathOf(1)))
    /\ nctl >= 3
    /\ workers_active[i]

\* ---------------------------------------------------------------- merger

\* The lines of every input file, one file after the other.
RECURSIVE Flatten(_)
Flatten(dir) == IF dir = <<>> THEN <<>> ELSE Head(dir) \o Flatten(Tail(dir))
Occurrences(line, s) == Cardinality({k \in 1..Len(s) : s[k] = line})
SameMultiset(s, t) ==
  /\ Len(s) = Len(t)
  /\ \A k \in 1..Len(s) : Occurrences(s[k], s) = Occurrences(s[k], t)

\* C16: for every directory of input files, each sorted ascending by its first
\* field, with M lines in total, the merger ends without an exception, and when
\* it has ended its output has exactly M lines, the first fields of the output
\* are non-decreasing and the output holds the same lines as often as the
\* inputs do; the inputs {1,4,7}, {2,5,8}, {3,6,9} give the keys 1..9 in order.
C16_MergeConserves ==
  /\ mpc \notin MergeErrors
  /\ mpc = "done" =>
       /\ Len(mout) = Len(Flatten(minputs))
       /\ SortedFile(mout)
       /\ SameMultiset(mout, Flatten(minputs))
       /\ minputs = ExampleDir => mout = [k \in 1..9 |-> Line(k, 0)]

\* Two different input files hold a line with the same first field.
SharedKey ==
  \E f, g \in DOMAIN minputs :
    /\ f # g
    /\ \E j \in 1..Len(minputs[f]), k \in 1..Len(minputs[g]) :
         FirstField(minputs[f][j]) = FirstField(minputs[g][k])

\* C17: when two input files without an empty one among the inputs hold lines
\* with the same key, two identical lines included, the merge ends without an
\* exception and every line is in the output as often as it is in the inputs.
C17_DuplicatesRetained ==
  (SharedKey /\ \A f \in DOMAIN minputs : minputs[f] # <<>>) =>
    /\ mpc \notin MergeErrors
    /\ mpc = "done" => SameMultiset(mout, Flatten(minputs))

\* ----------------------------------------------------------- offset lookup

\* The value written in the j-th group of eleven characters of the offset file
\* (j from 0): its ten digits.
ValueAt(j) ==
  StripZeros(SubSeq(otable, OFFSET_SIZE_BYTES * j + 1,
                    OFFSET_SIZE_BYTES * j + OFFSET_SIZE_BYTES - 1))
\* The same value without its first digit.
LowDigitsAt(j) ==
  StripZeros(SubSeq(otable, OFFSET_SIZE_BYTES * j + 2,
                    OFFSET_SIZE_BYTES * j + OFFSET_SIZE_BYTES - 1))
\* The number of values of the offset file.
NumValues == Len(otable) \div OFFSET_SIZE_BYTES
\* The table is N entries of 22 bytes, a (start, end) pair each.
PairTable == Len(otable) % (2 * OFFSET_SIZE_BYTES) = 0
NumPairs == Len(otable) \div (2 * OFFSET_SIZE_BYTES)
\* A lookup has just been made and has returned a pair.
JustLooked == opc = "loop" /\ Len(oresults) > 0

\* C18, as the spec states it: for an offset table of N 22-byte entries and
\* every record index i with 0 <= i < N the lookup seeks to byte 22*i, reads 22
\* bytes and returns the (start, end) pair stored in entry i; on the 66-byte
\* table of (0,100), (100,250), (250,400) the lookup for index 1 returns
\* (100,250).
C18_LookupReturnsEntry ==
  PairTable =>
    /\ \A k \in 1..Len(oresults) :
         oids[k] < NumPairs =>
           oresults[k] = <<ValueAt(2 * oids[k]), ValueAt(2 * oids[k] + 1)>>
    /\ (opc = "Exception" => oids[Len(oresults) + 1] >= NumPairs)
    /\ (JustLooked /\ oids[Len(oresults)] < NumPairs =>
         /\ opos = 2 * OFFSET_SIZE_BYTES * oids[Len(oresults)]
         /\ Len(odata) = 2 * OFFSET_SIZE_BYTES)
    /\ (otable = ExampleTable /\ Len(oresults) > 0 /\ oids[1] = 1 =>
         oresults[1] = <<DigitsOf(100), DigitsOf(250)>>)

\* The nine low-order digits of a value.
LowDigits(v) == IF Len(v) < OFFSET_SIZE_BYTES - 1 THEN v ELSE StripZeros(Tail(v))

\* C18, amended: the offset file is a run of 11-byte values (ten digits and a
\* newline); for every record index i whose values i and i+1 are both in the
\* file the lookup seeks to byte 11*i, reads 22 bytes and returns a pair whose
\* start is value i and whose end is value i+1 in its nine low-order digits; on
\* the 66-byte table of 0, 100, 100, 250, 250, 400 the lookup for index 1
\* returns (100,100).
C18_LookupReturnsConsecutiveValues ==
  /\ \A k \in 1..Len(oresults) :
       /\ oresults[k][1] = ValueAt(oids[k])
       /\ LowDigits(oresults[k][2]) = LowDigitsAt(oids[k] + 1)
  /\ (opc = "Exception" => oids[Len(oresults) + 1] + 2 > NumValues)
  /\ opc # "ValueError"
  /\ (JustLooked =>
       /\ opos = OFFSET_SIZE_BYTES * oids[Len(oresults)]
       /\ Len(odata) = 2 * OFFSET_SIZE_BYTES)
  /\ (otable = ExampleTable /\ Len(oresults) > 0 /\ oids[1] = 1 =>
       oresults[1] = <<DigitsOf(100), DigitsOf(100)>>)

\* C18 witness: index 1 has been looked up in the 66-byte table.
C18_Witness ==
  /\ otable = ExampleTable
  /\ oids = <<1>>
  /\ opc = "returned"
  /\ oresults = <<<<DigitsOf(100), DigitsOf(100)>>>>

\* C19: the lookup parses both fields of the 22 bytes it read as full 10-digit
\* decimals: the pair it returns is (start, end) for every two zero-padded
\* 10-digit fields, those with a non-zero first digit included.
C19_ParsesFullTenDigits ==
  JustLooked =>
    oresults[Len(oresults)] =
      << StripZeros(SubSeq(odata, 1, OFFSET_SIZE_BYTES - 1)),
         StripZeros(SubSeq(odata, OFFSET_SIZE_BYTES + 1, 2 * OFFSET_SIZE_BYTES - 1)) >>

\* C20, as the spec states it: the lookup fails, returning no offsets, whenever
\* fewer than 22 bytes can be read for the record, and a record index greater
\* than or equal to the record count (table length / 22) never yields a pair.
C20_IndexBeyondCountFails ==
  PairTable =>
    /\ \A k \in 1..Len(oresults) : oids[k] < NumPairs
    /\ (opc = "returned" => Len(oresults) = Len(oids))
    /\ (opc = "Exception" => Len(odata) < 2 * OFFSET_SIZE_BYTES)
    /\ (JustLooked => Len(odata) = 2 * OFFSET_SIZE_BYTES)

\* The next record of the call has fewer than 22 bytes from its position on.
ShortRead ==
  /\ opc = "loop"
  /\ Len(oresults) < Len(oids)
  /\ OFFSET_SIZE_BYTES * (oids[Len(oresults) + 1] + 2) > Len(otable)

\* C20, amended: the lookup fails, returning no offsets, whenever fewer than 22
\* bytes can be read from byte 11*i on, and a record index greater than or
\* equal to (table length / 11) - 1 never yields a pair.
C20_ShortReadFails ==
  /\ [](\A k \in 1..Len(oresults) : oids[k] + 2 <= NumValues)
  /\ [](opc = "returned" => \A k \in 1..Len(oids) : oids[k] + 2 <= NumValues)
  /\ [][ShortRead => opc' = "Exception" /\ oresults' = oresults]_vars

\* C20 witness: the second record of a call is past the end of the table and
\* the pair of the first is not returned.
C20_Witness ==
  /\ opc = "Exception"
  /\ Len(oresults) = 1
  /\ Len(odata) < 2 * OFFSET_SIZE_BYTES
  /\ oids[2] + 1 >= NumValues

\* --------------------------------------------------------------- ID decoder

\* The longest non-digit prefix of a subdir.
RECURSIVE LangCode(_)
LangCode(subdir) ==
  IF subdir = <<>> \/ IsDigitChar(Head(subdir)) THEN <<>>
  ELSE <<Head(subdir)>> \o LangCode(Tail(subdir))
\* The number of characters of a subdir behind its language code.
DigitCount(subdir) == Len(subdir) - Len(LangCode(subdir))
\* <subdir>-<fileseq>-<recordseq> with subdir a language code and two digits or
\* more.
WellFormedId(fields) ==
  /\ Len(fields) = 3
  /\ LangCode(fields[1]) # <<>>
  /\ DigitCount(fields[1]) >= 2
  /\ AllDigits(SubSeq(fields[1], Len(LangCode(fields[1])) + 1, Len(fields[1])))
  /\ AllDigits(fields[2]) /\ fields[2] # <<>>
  /\ AllDigits(fields[3]) /\ fields[3] # <<>>
Ext(kind) == IF kind = S_txt THEN S_json_gz ELSE S_warc_gz
\* <root>/<kind>/<lang>/<stream>/<subdir>/<subdir>-<fileseq>.<ext>
ContainerPath(root, kind, fields) ==
  LET subdir == fields[1]
      lang == LangCode(subdir)
  IN root \o <<"/">> \o kind \o <<"/">> \o lang \o <<"/">>
       \o SubSeq(subdir, 1, Len(lang) + 2) \o <<"/">> \o subdir \o <<"/">>
       \o subdir \o <<"-">> \o fields[2] \o <<".">> \o Ext(kind)
\* The container path with its trailing json.gz (txt) or gz (html) made offset.
OffsetPath(root, kind, fields) ==
  LET path == ContainerPath(root, kind, fields)
      cut == IF kind = S_txt THEN Len(S_json_gz) ELSE Len(S_gz)
  IN SubSeq(path, 1, Len(path) - cut) \o S_offset

\* C21: for every well-formed ID, with or without the prefix, every root and
\* kind, the decoder returns the container path
\* <root>/<kind>/<lang>/<stream>/<subdir>/<subdir>-<fileseq>.<ext> and an offset
\* path that differs from it only in the trailing extension, whatever the root
\* contains; clueweb22-en0003-18-00042 gives <root>/<kind>/en/en00/en0003/en0003-18.<ext>.
C21_DecodesPaths ==
  (idpc # "call" /\ WellFormedId(idfields)) =>
    /\ idpc = "returned"
    /\ idout[1] = ContainerPath(idroot, idkind, idfields)
    /\ idout[2] = OffsetPath(idroot, idkind, idfields)
    /\ (idfields = <<S_en0003, S_18, S_00042>> =>
         idout[1] = idroot \o <<"/">> \o idkind
                      \o <<"/", "e", "n", "/", "e", "n", "0", "0", "/">> \o S_en0003
                      \o <<"/">> \o S_en0003 \o <<"-">> \o S_18 \o <<".">> \o Ext(idkind))

\* C22: the decoder fails for every ID that has not three dash-separated
\* fields, whose subdir has no digit, or whose subdir has fewer than two
\* digits: such an ID never produces a path.
C22_MalformedIdFails ==
  (idpc # "call"
     /\ \/ Len(idfields) # 3
        \/ \A k \in 1..Len(idfields[1]) : ~IsDigitChar(idfields[1][k])
        \/ DigitCount(idfields[1]) < 2) =>
    idpc = "ValueError" /\ idout = <<>>

\* ---------------------------------------------------------------- extractor

\* The recordseq of an ID: its last dash-separated field, as a number.
RecordSeqOf(id) == NatOf(SplitDash(id, <<>>)[Len(SplitDash(id, <<>>))])
\* The bytes of record r of a container: the range between positions r and
\* r + 1 of its offset file.
SliceOf(r) == [j \in 1..RecordBytes |-> r]
\* One slice per requested ID, in the order requested.
RequestedSlices == Concat([k \in 1..Len(record_ids) |-> SliceOf(RecordSeqOf(record_ids[k]))])

\* C23: for every list of requested IDs, with or without the prefix, that map
\* to one container, a run that returns has written one output file, which
\* holds exactly one slice per requested ID in the order requested, the slice
\* of an ID being the byte range of the record at its recordseq; for
\* [clueweb22-en0003-18-00042, clueweb22-en0003-18-00001] the output holds
\* record 42 followed by record 1.
C23_OneSlicePerRequestedId ==
  (xpc = "returned" /\ Len(files_to_access) = 1) =>
    /\ DOMAIN xout = {OutputFile(files_to_access[1].path)}
    /\ xout[OutputFile(files_to_access[1].path)] = RequestedSlices
    /\ (record_ids = <<IdString(TRUE, <<S_en0003, S_18, S_00042>>),
                       IdString(TRUE, <<S_en0003, S_18, S_00001>>)>> =>
         xout[OutputFile(files_to_access[1].path)] = SliceOf(42) \o SliceOf(1))

\* A requested ID maps to a container or an offset file that does not exist.
MissingRequested ==
  \E k \in 1..Len(record_ids) :
    LET d == IdToDataFilePath(XRoot, record_ids[k], S_txt)
    IN ~d.err /\ (d.path \notin xfs \/ d.offset_path \notin xfs)

\* C24: when a requested ID maps to a container file or an offset file that
\* does not exist, no extraction task is ever handed to the pool and no output
\* file is created or written.
C24_MissingFileFailsBeforeDispatch ==
  MissingRequested =>
    /\ \A k \in 1..Len(xtask) : xtask[k] = "none"
    /\ DOMAIN xout = {}

\* C25: when the run has ended, with the exception of a failed task or
\* without, every other submitted task has run to completion and its output
\* file holds all the records it read, one per ID of its container, whatever
\* the order in which the tasks ended.
C25_OtherTasksComplete ==
  xpc \in {"returned", "raised"} =>
    \A k \in 1..Len(xtask) :
      xtask[k] # "failed" =>
        /\ xtask[k] = "done"
        /\ Len(xdata[k]) = Len(files_to_access[k].ids)
        /\ OutputFile(files_to_access[k].path) \in DOMAIN xout
        /\ xout[OutputFile(files_to_access[k].path)] = Concat(xdata[k])

\* C25 witness: the run has ended with the exception of a failed task that
\* was collected first; the task of the other container, never collected, is
\* done and its file is written.
C25_Witness ==
  /\ xpc = "raised"
  /\ \E f, k \in 1..Len(xtask) :
       /\ xtask[f] = "failed" /\ f \in xseen
       /\ xtask[k] = "done" /\ k \notin xseen
       /\ xout[OutputFile(files_to_access[k].path)] # <<>>


\* ------------------------------------------ claims on errors inside the store

\* The rows c's last get_next_batch returned are all IN_PROGRESS under c's job
\* in the table it left behind.
MarkedAll(c) ==
  \A k \in 1..Len(ret[c].ids) :
    LET id == ret[c].ids[k]
    IN files[id].state = IN_PROGRESS /\ files[id].job = ConnJob(c)

\* C26: when a database-level error occurs inside a store operation, the write
\* operations (clear_batch, complete_batch, complete_batch_files) return false
\* and get_next_batch returns two empty lists; get_next_batch never returns the
\* ids or paths of rows it failed to mark IN_PROGRESS.
C26_ErrorsReturnNothing ==
  /\ [](\A c \in Conns :
          ret[c].error =>
            /\ ret[c].op \in WriteOpNames => ret[c].ok = FALSE
            /\ ret[c].op = "get_next_batch" => ret[c].ids = <<>>)
  /\ [][\A c \in Conns :
          (ret'[c].op = "get_next_batch" /\ cpc[c] # "idle" /\ cpc'[c] = "idle")
            => MarkedAll(c)']_vars

\* The job ids a caller may pass: a job's name, or the empty string clear_batch
\* leaves in the job column.
JobArgs == Jobs \cup {EMPTY}

\* C27: for every store state and every job j, calling clear_batch(j) twice
\* leaves the table as calling it once does, and so does calling
\* complete_batch(j) twice.
C27_ClearAndCompleteIdempotent ==
  \A job \in JobArgs :
    /\ ClearBatch(ClearBatch(files, job), job) = ClearBatch(files, job)
    /\ CompleteBatch(CompleteBatch(files, job), job) = CompleteBatch(files, job)

\* C27 witness: clear_batch has just emptied the job of a row while the other
\* job still holds a lease, so that both operations change the table when
\* called once more with some job.
C27_Witness ==
  /\ lastCall.op = "clear_batch"
  /\ \E id \in Ids : files[id].job = EMPTY /\ files[id].state = NOT_STARTED
  /\ \E job \in Jobs :
       /\ ClearBatch(files, job) # files
       /\ CompleteBatch(files, job) # files


\* --------------------------------------- claims on the pipeline as a whole

RECURSIVE SumRecords(_)
SumRecords(S) ==
  IF S = {} THEN 0
  ELSE LET id == CHOOSE x \in S : TRUE
       IN files[id].records + SumRecords(S \ {id})

\* Sum of the declared record counts over the rows in state DONE.
DoneRecords == SumRecords({id \in Ids : files[id].state = DONE})

RECURSIVE SumRows(_)
SumRows(S) ==
  IF S = {} THEN 0
  ELSE LET name == CHOOSE x \in S : TRUE
       IN Len(sdir[name].rows) + SumRows(S \ {name})

\* Total number of rows in the shards of the output directory.
ShardRowsTotal == SumRows({name \in ShardNames : sdir[name].exists})

\* No run is under way and no message is waiting.
PipelineAtRest ==
  /\ \A r \in Runs : rpc[r] = "idle"
  /\ jobsQ = {}
  /\ ctrlQ = {}

\* C28: after any run of the static pipeline (jobs that succeed, jobs that fail
\* partway, RESET_JOB of failed jobs, reruns under the same or a new job name)
\* the sum of declared record counts over DONE rows equals the total number of
\* rows in the scan shards, every successfully scanned file emitting exactly its
\* declared number of rows.
C28_DoneRecordsEqualShardRows ==
  PipelineAtRest => DoneRecords = ShardRowsTotal


\* ------------------------------------------------- claims on generate

\* The file key of a row.
KeyOfRow(row) == row.path[2]

\* C29: generate inserts one row per discovered container in ascending sorted
\* order, so that id(r1) < id(r2) exactly when the file key of r1 sorts before
\* the file key of r2, every row NOT_STARTED with no job; when the output file
\* exists it fails without touching the file.
C29_GenerateSortedRows ==
  /\ [](gpc = "returned" =>
          /\ gfile.exists
          /\ Len(gfile.rows) = Len(gwalk)
          /\ \A k \in SeqRange(gwalk) :
               Cardinality({i \in DOMAIN gfile.rows : KeyOfRow(gfile.rows[i]) = k}) = 1
          /\ \A i, j \in DOMAIN gfile.rows :
               i < j <=> KeyOfRow(gfile.rows[i]) < KeyOfRow(gfile.rows[j])
          /\ \A i \in DOMAIN gfile.rows :
               gfile.rows[i].state = NOT_STARTED /\ gfile.rows[i].job = NULL)
  /\ [][(Generate /\ gfile.exists) => (gpc' = "Exception" /\ gfile' = gfile)]_vars
  /\ [](gpc = "Exception" => gfile \in ExistingFiles)

\* C29 witness: three containers that os.walk yielded out of key order have
\* been inserted.
C29_Witness ==
  /\ gpc = "returned"
  /\ Len(gfile.rows) >= 3
  /\ gwalk[1] > gwalk[2]


\* ---------------------------------------------- claims on the counter

\* The count the counter holds for a shard: the one cached by an earlier run,
\* or the shard's number of lines.
CountHeld(job) ==
  IF job \in DOMAIN already_counted
  THEN already_counted[job]
  ELSE Len(shards[job]) \div 2

\* The store's sum of records for the job equals n.
StoreSumIs(job, n) ==
  /\ \E id \in Ids : files[id].job = job
  /\ SumRecords({id \in Ids : files[id].job = job}) = n

\* C30: for each shard <job_id>.csv the counter compares the shard's line count
\* with get_record_count_for_job(job_id): info-skip when the shard has zero
\* lines, info when the count is positive and equals the store's sum, a warning
\* when it is positive and differs; a count cached by an earlier run is reused
\* without reading the shard; the counter never changes a file-state row.
C30_CounterVerdicts ==
  /\ [](\A job \in DOMAIN clog :
          /\ CountHeld(job) = 0 => clog[job] = "info-skip"
          /\ (CountHeld(job) > 0 /\ StoreSumIs(job, CountHeld(job))) => clog[job] = "info"
          /\ (CountHeld(job) > 0 /\ ~StoreSumIs(job, CountHeld(job))) => clog[job] = "warning")
  /\ [](\A job \in DOMAIN already_counted : job \notin creads)
  /\ [](\A job \in DOMAIN clog : job \notin DOMAIN already_counted => job \in creads)
  /\ [][files' = files]_vars

\* C30 witness: both shards are checked; one has a stale cached count that
\* matches the store's sum and was not read, the other was read and differs.
C30_Witness ==
  /\ csv_files = {}
  /\ \E a, b \in DOMAIN clog :
       /\ a \in DOMAIN already_counted
       /\ already_counted[a] # Len(shards[a]) \div 2
       /\ clog[a] = "info"
       /\ b \in creads
       /\ clog[b] = "warning"
\* ------------------------------------------- claims on unknown messages

\* The step handles message m of unknown type taken from the socket m.sock.
HandlesUnknown(m) ==
  /\ m.type = "UNKNOWN"
  /\ IF m.sock = "jobs" THEN m \in jobsQ /\ CoordJobs(m) ELSE m \in ctrlQ /\ CoordCtrl(m)

\* C31: a message of unknown type received by the coordinator is answered with
\* (ACK, null) to its sender, changes no row of the files table, and leaves the
\* coordinator running, able to serve the next request.
C31_UnknownMessageAcked ==
  [][\A m \in jobsQ \cup ctrlQ :
       HandlesUnknown(m) =>
         /\ files' = files
         /\ coord' = "running"
         /\ IF m.sock = "jobs"
            THEN jobsReply'[m.from] = Reply("ACK", TRUE, <<>>)
            ELSE ctrlReply'[m.from] = Reply("ACK", TRUE, <<>>)]_vars

\* ------------------------------------------------- claims on restarting

AllDone == \A id \in Ids : files[id].state = DONE

\* Number of rows of container id in the shards that exist.
RECURSIVE RowsOfIdIn(_, _)
RowsOfIdIn(id, S) ==
  IF S = {} THEN 0
  ELSE LET name == CHOOSE x \in S : TRUE
       IN Cardinality({k \in 1..Len(sdir[name].rows) : sdir[name].rows[k] = id})
            + RowsOfIdIn(id, S \ {name})

ScannedOnce(id) ==
  RowsOfIdIn(id, {name \in ShardNames : sdir[name].exists}) = RecordsOf(id)

\* C32: an incomplete static run is restartable: when every failed job is
\* eventually reset with RESET_JOB, the coordinator keeps serving and workers
\* keep requesting batches whose scans succeed, every row eventually reaches
\* DONE and stays there, and each row is then scanned successfully exactly once
\* into the shards that remain.
C32_Restartable ==
  /\ <>[]AllDone
  /\ [](AllDone => \A id \in Ids : ScannedOnce(id))

\* ------------------------------- claims on the dynamic supervisor's main loop

\* Every worker process has sent FINISHED and run() has counted it.
AllWorkersFinished == num_finished = NumWorkers

\* C33: the dynamic supervisor's main loop terminates once every worker process
\* has sent FINISHED: it leaves the loop, joins the processes and returns, so
\* no later iteration of the loop receives and answers a control message.
C33_LoopEndsWhenAllFinished ==
  [][AllWorkersFinished => ~DynHandleCtrl]_vars

\* C34: a RESUME or PAUSE whose worker index is outside 0..procs-1, too large or
\* negative, is acknowledged but changes nothing: the keys of the active map
\* stay 0..procs-1, no file is leased and nothing is sent to a worker pipe.
C34_InvalidIndexIgnored ==
  [][(DynHandleCtrl /\ zreq.worker \notin Workers) =>
       /\ zack'
       /\ DOMAIN workers_active' = Workers
       /\ files' = files
       /\ toWorker' = toWorker]_vars

\* ------------------------------------------------ claims on lease holders

\* The step is a get_next_batch call that leased row id under the job it was
\* passed.
LeasedNow(id) ==
  /\ lastCall'.op = "get_next_batch"
  /\ id \in SeqRange(lastCall'.ids)
  /\ files'[id].job = lastCall'.job

\* C35: in every reachable state of the store a NOT_STARTED row has no lease
\* holder (job is null or empty), and an IN_PROGRESS row has the job id passed
\* to the get_next_batch call that leased it most recently: a row is
\* IN_PROGRESS after a step only if that step leased it under the caller's
\* job id or left the row as it was.
C35_LeaseHolder ==
  /\ [](\A id \in Ids : files[id].state = NOT_STARTED => files[id].job \in {NULL, EMPTY})
  /\ [][\A id \in Ids :
          files'[id].state = IN_PROGRESS => (LeasedNow(id) \/ files'[id] = files[id])]_vars

\* C35 witness: a row released by clear_batch is NOT_STARTED with an empty job
\* beside a row that the last get_next_batch call leased again.
C35_Witness ==
  /\ \E id \in Ids : files[id].state = NOT_STARTED /\ files[id].job = EMPTY
  /\ \E id \in Ids :
       /\ files[id].state = IN_PROGRESS
       /\ lastCall.op = "get_next_batch"
       /\ id \in SeqRange(lastCall.ids)
       /\ files[id].job = lastCall.job

\* --------------------------------- claims on the worker loop of a static run

\* The processes of the run in progress that have opened their shard.
Opened == {w \in ProcIds : sproc[w] \in {"ask", "scan", "exited"}}

\* Number of processes that hold path p, and number of times the rows of p
\* were written to the shards of the run in progress.
InHand(p) == Cardinality({w \in ProcIds : sfile[w] = p})
TimesScanned(p) ==
  Cardinality({<<w, k>> \in Opened \X (1..(NumFiles * Len(FileKeys(p)))) :
                 /\ k <= Len(sdir[ShardName(sjob, w)].rows)
                 /\ sdir[ShardName(sjob, w)].rows[k] = FileKeys(p)[1]})
HandedOut == {sbatch[k] : k \in 1..scur}

\* C36: in a static run with several processes every path of the batch is
\* handed to at most one process and at most once, paths are handed out in
\* batch order, MSG_NOFILES is sent to a process only after all paths have been
\* handed out, and the FINISHED sent to the coordinator carries ok = true only
\* if every process reported success, in which case every path was scanned.
C36_WorkerLoopHandsOutOnce ==
  /\ [](sjob # NULL =>
          /\ \A p \in SeqRange(sbatch) : InHand(p) + TimesScanned(p) <= 1
          /\ \A p \in SeqRange(sbatch) :
               (InHand(p) + TimesScanned(p) > 0) => p \in HandedOut)
  /\ [][\A w \in ProcIds :
          (sfile'[w] # sfile[w] /\ sfile'[w] # NoPath) =>
            (scur' = scur + 1 /\ sfile'[w] = sbatch[scur'])]_vars
  /\ [][\A w \in ProcIds :
          (sproc[w] = "ask" /\ sproc'[w] = "exited") => scur = Len(sbatch)]_vars
  /\ [][(ShardRunEnd /\ FinishedOk) =>
          /\ \A w \in ProcIds : sproc[w] # "none" => sok[w]
          /\ \A p \in SeqRange(sbatch) : TimesScanned(p) = 1]_vars

\* C36 witness: two processes have scanned one path each of a batch of two,
\* both have been told that no file is left, and the run is about to report
\* success.
C36_Witness ==
  /\ sjob # NULL
  /\ Len(sbatch) = 2
  /\ \A w \in ProcIds : sproc[w] = "exited" /\ sok[w]
  /\ \A w \in ProcIds : Len(sdir[ShardName(sjob, w)].rows) = Len(FileKeys(sbatch[1]))
  /\ FinishedOk

\* ------------------------------------------------ claims on shard names

\* The stem of the shard of process w of a static run under job:
\* self.job_id + f'-w{worker_id}.csv' without the .csv.
StaticShardStem(job, w) == job \o "-w" \o ToString(w)
\* The stem of the shard of dynamic worker i:
\* self.job_id + f'-worker{worker_id}.csv' without the .csv.
DynShardStem(i) == "clueweb_metadata_scanner" \o "-worker" \o ToString(i)

\* The container a row of a dynamic shard came from.
ContainerOfKey(key) == (key + 1) \div 2

\* C37: in both scan modes the shard a worker writes is named <t>.csv where t
\* is exactly the job id under which that worker's files are leased in the
\* store: every row of a shard comes from a container whose store row has job
\* equal to the shard's stem, which is what get_record_count_for_job(stem) of
\* the counter sums over.
C37_ShardStemIsLeaseJob ==
  /\ \A name \in ShardNames : \A k \in 1..Len(sdir[name].rows) :
       files[sdir[name].rows[k]].job = StaticShardStem(name[1], name[2])
  /\ \A i \in Workers : \A k \in 1..Len(dshard[i].rows) :
       files[ContainerOfKey(dshard[i].rows[k])].job = DynShardStem(i)

\* ------------------------------------------------ claims on the batch size

\* C38: get_next_batch(job_id, n) never leases more than n rows for any
\* integer n: for n = 0 and for every negative n it returns empty lists and
\* changes no row.
C38_NeverLeasesMoreThanN ==
  [][\A job \in Jobs, n \in Counts :
       StoreGetNextBatch(job, n) =>
         /\ Cardinality({id \in Ids : files'[id] # files[id]}) <= (IF n < 0 THEN 0 ELSE n)
         /\ Len(lastCall'.ids) <= (IF n < 0 THEN 0 ELSE n)
         /\ n <= 0 => (lastCall'.ids = <<>> /\ lastCall'.paths = <<>> /\ files' = files)]_vars

\* --------------------------------- claims on progress of the dynamic workers

\* The step puts a NEW_FILE or a NOFILES message on the pipe of worker i.
Served39(i) ==
  /\ Len(toWorker'[i]) = Len(toWorker[i]) + 1
  /\ toWorker'[i][Len(toWorker'[i])].type \in {"NEW_FILE", "NOFILES"}

\* The step answers a FILE_SCANNED of worker i.
AnswersScanned(i) ==
  /\ toParent[i] # <<>>
  /\ Head(toParent[i]).type = "FILE_SCANNED"
  /\ DynHandlePipe(i)

\* C39: if worker i has been resumed and is never paused afterwards and all
\* scans succeed, every FILE_SCANNED of worker i is answered with a new file
\* while NOT_STARTED rows remain, every file eventually reaches DONE, and
\* worker i eventually receives NOFILES and emits FINISHED; a worker that
\* stays paused is sent neither a file nor NOFILES, so it never emits FINISHED.
C39_ActiveWorkerDrainsStore ==
  /\ \A i \in Workers :
       (<>[]workers_active[i]) => <>(AllDone /\ wpc[i] = "exited")
  /\ [][\A i \in Workers :
          (AnswersScanned(i) /\ workers_active[i] /\ NotStartedIds(files) # {}) =>
            toWorker'[i][Len(toWorker'[i])].type = "NEW_FILE"]_vars
  /\ [][\A i \in Workers : Served39(i) => workers_active'[i]]_vars

\* ------------------------------------------------ claims on the merge heap

\* Number of heap entries that came from file f.
EntriesOf(f) == Cardinality({k \in 1..Len(heap) : heap[k][3] = f})
\* Lines of f not yet written to the output: those unread and the one on the heap.
Unwritten(f) == (Len(minputs[f]) - mpos[f]) + EntriesOf(f)
\* The heap has been filled and no exception has ended the run.
BetweenIterations == mfill = {} /\ mpc \in {"run", "done"}

\* C40: after initialisation and after every loop iteration the heap holds
\* exactly one entry for each input file that still has unread or unwritten
\* lines and none for an exhausted file, every exhausted file has been closed
\* and dropped from sorted_files, and this holds also when some input file has
\* zero lines: such a file contributes nothing and the merge still completes.
C40_HeapOneEntryPerLiveFile ==
  /\ BetweenIterations =>
       \A f \in DOMAIN minputs :
         /\ EntriesOf(f) = (IF Unwritten(f) > 0 THEN 1 ELSE 0)
         /\ f \in msorted <=> Unwritten(f) > 0
  /\ (\E f \in DOMAIN minputs : Len(minputs[f]) = 0) => mpc # "AttributeError"

====
